---- MODULE Spec2Model ----
(***************************************************************************)
(* A model of the TTML lyric parser of AMLL TTML Tool                      *)
(* (src/modules/project/logic/ttml-parser.ts).                             *)
(*                                                                         *)
(* parseLyric is modelled as a state machine: the metadata extractors run  *)
(* one after the other, then the Line Builder (parseLineElement) walks the *)
(* child nodes of every selected p element.  Its recursion on x-bg spans   *)
(* is kept as an explicit stack of frames, one frame per running call.     *)
(*                                                                         *)
(* Representation                                                          *)
(*   text        a sequence of one-character strings (<<"a", " ">>)        *)
(*   "FW(" "FW)" the full-width parentheses U+FF08 and U+FF09              *)
(*   attribute   [prefix, localName, value]; its name is prefix:localName  *)
(*   DOM node    [nodeType, nodeName, attributes, childNodes, data]        *)
(*   optional    <<>> for undefined/null, <<v>> for a present value v      *)
(*   Map         a function whose DOMAIN is the set of keys                *)
(***************************************************************************)
EXTENDS Integers, Sequences, FiniteSets, TLC

VARIABLES
    doc,                      \* the parsed XML document (the input)
    pc,                       \* position of parseLyric
    itunesTranslations,       \* Map<string, LineMetadata>
    itunesLineRomanizations,  \* Map<string, LineMetadata>
    itunesWordRomanizations,  \* Map<string, WordRomanMetadata>
    itunesTimedTranslations,  \* Map<string, LineMetadata>
    metadata,                 \* TTMLMetadata[]
    mainAgentId,
    lyricLines,               \* LyricLine[], the shared output sequence
    stack,                    \* running parseLineElement calls, innermost last
    lineIdx,                  \* index of the next selected p element
    uidCount,                 \* number of ids handed out by uid()
    sourceOf,                 \* history of the call: id of a line or word -> path of its DOM node
    assembled,                \* history of the call: line id -> line.words when the child loop ended
    queue,                    \* the documents the caller parses after this one
    returned,                 \* history: the TTMLLyric of every call that returned
    system,                   \* colorSystemAtom: [activeFolderId, folders]
    rendered,                 \* the value of colorSystemAtom the last render gave the handlers
    thrown,                   \* an updater of the colour system threw a TypeError
    clock,                    \* Date.now()
    stray,                    \* history: setActiveFolder or deleteFolder was called with the id of no folder
    lyricLinesAtom,           \* lyricLinesAtom: the lines the editor works on, Null before a project is open
    wordAtom,                 \* the word of the mounted RubyEditor as <<line, word>>, Null before
    rubyWarningShown,         \* rubyWarningShownProjectIdsAtom has the project id
    warningOpen,              \* the warning dialog of the RubyEditor is open
    edits                     \* the editor operations the user still performs

vars == <<doc, pc, itunesTranslations, itunesLineRomanizations,
          itunesWordRomanizations, itunesTimedTranslations, metadata,
          mainAgentId, lyricLines, stack, lineIdx, uidCount, sourceOf,
          assembled, queue, returned, system, rendered, thrown, clock, stray,
          lyricLinesAtom, wordAtom, rubyWarningShown, warningOpen, edits>>

EditorVars == <<system, rendered, thrown, clock, stray, lyricLinesAtom,
                wordAtom, rubyWarningShown, warningOpen, edits>>

-----------------------------------------------------------------------------
(* JavaScript values and built-ins *)

Null == "<null>"

Truthy(v) == v # Null /\ v # ""

EmptyMap == [k \in {} |-> <<>>]

MapSet(m, k, v) == [x \in (DOMAIN m) \cup {k} |-> IF x = k THEN v ELSE m[x]]

MapDelete(m, k) == [x \in (DOMAIN m) \ {k} |-> m[x]]

MathMin(a, b) == IF a <= b THEN a ELSE b

MathMax(a, b) == IF a >= b THEN a ELSE b

POSITIVE_INFINITY == 99999999

IsSpace(c) == c \in {" ", "\n", "\t"}

RECURSIVE TrimStart(_)
TrimStart(s) ==
    IF s # <<>> /\ IsSpace(Head(s)) THEN TrimStart(Tail(s)) ELSE s

RECURSIVE TrimEnd(_)
TrimEnd(s) ==
    IF s # <<>> /\ IsSpace(s[Len(s)])
    THEN TrimEnd(SubSeq(s, 1, Len(s) - 1))
    ELSE s

Trim(s) == TrimEnd(TrimStart(s))

RECURSIVE ConcatAll(_)
ConcatAll(ss) == IF ss = <<>> THEN <<>> ELSE Head(ss) \o ConcatAll(Tail(ss))

SelectIdx(s, Test(_)) == {i \in 1..Len(s) : Test(s[i])}

MinOf(S) == CHOOSE x \in S : \A y \in S : x <= y

RemoveAt(s, i) == SubSeq(s, 1, i - 1) \o SubSeq(s, i + 1, Len(s))

Number(s) ==
    CASE s = "0" -> 0
      [] s = "1" -> 1
      [] s = "2" -> 2

(* /^[（(]/ and /[)）]$/ *)
StartsWithOpenParen(s) == s # <<>> /\ Head(s) \in {"(", "FW("}

EndsWithCloseParen(s) == s # <<>> /\ s[Len(s)] \in {")", "FW)"}

(* .trim().replace(/^[（(]/, "").replace(/[)）]$/, "").trim() *)
StripParens(s) ==
    LET t == Trim(s)
        u == IF StartsWithOpenParen(t) THEN Tail(t) ELSE t
        v == IF EndsWithCloseParen(u) THEN SubSeq(u, 1, Len(u) - 1) ELSE u
    IN Trim(v)

-----------------------------------------------------------------------------
(* The DOM *)

Attr(prefix, local, value) ==
    [prefix |-> prefix, localName |-> local, value |-> value]

TextNode(t) ==
    [nodeType |-> "TEXT_NODE", nodeName |-> "#text", attributes |-> <<>>,
     childNodes |-> <<>>, data |-> t]

Element(name, attrs, children) ==
    [nodeType |-> "ELEMENT_NODE", nodeName |-> name, attributes |-> attrs,
     childNodes |-> children, data |-> <<>>]

AttrName(a) == <<a.prefix, a.localName>>

(* el.getAttribute(name), name given as <<prefix, localName>> *)
getAttribute(el, name) ==
    LET hits == {i \in 1..Len(el.attributes) : AttrName(el.attributes[i]) = name}
    IN IF hits = {} THEN Null ELSE el.attributes[MinOf(hits)].value

hasAttribute(el, name) ==
    \E i \in 1..Len(el.attributes) : AttrName(el.attributes[i]) = name

RECURSIVE textContent(_)
textContent(node) ==
    IF node.nodeType = "TEXT_NODE"
    THEN node.data
    ELSE ConcatAll([i \in 1..Len(node.childNodes) |->
                        textContent(node.childNodes[i])])

(* document-order descendants of el that are elements *)
RECURSIVE Descendants(_)
Descendants(el) ==
    ConcatAll([i \in 1..Len(el.childNodes) |->
        IF el.childNodes[i].nodeType = "ELEMENT_NODE"
        THEN <<el.childNodes[i]>> \o Descendants(el.childNodes[i])
        ELSE <<>>])

(* el.querySelector("span") # null *)
HasSpanDescendant(el) ==
    \E i \in 1..Len(Descendants(el)) : Descendants(el)[i].nodeName = "span"

(* el.querySelectorAll("span[begin][end]") *)
TimedSpanDescendants(el) ==
    LET d == Descendants(el)
        keep == {i \in 1..Len(d) : /\ d[i].nodeName = "span"
                                   /\ hasAttribute(d[i], <<"", "begin">>)
                                   /\ hasAttribute(d[i], <<"", "end">>)}
    IN [k \in 1..Cardinality(keep) |->
            d[CHOOSE i \in keep : Cardinality({j \in keep : j < i}) = k - 1]]

(* serialisation of the children of el: text as it is, an element as its
   start tag, its inner markup and its end tag *)
RECURSIVE innerHTML(_)
innerHTML(el) ==
    ConcatAll([i \in 1..Len(el.childNodes) |->
        LET n == el.childNodes[i]
        IN IF n.nodeType = "TEXT_NODE"
           THEN n.data
           ELSE <<"<", n.nodeName, ">">> \o innerHTML(n)
                    \o <<"<", "/", n.nodeName, ">">>])

-----------------------------------------------------------------------------
(* utils/timestamp.ts: the clock strings the documents use, in milliseconds *)

parseTimespan(t) ==
    CASE t = "0.0s" -> 0
      [] t = "0.5s" -> 500
      [] t = "1.0s" -> 1000
      [] t = "1.5s" -> 1500
      [] t = "2.0s" -> 2000
      [] t = "3.0s" -> 3000

-----------------------------------------------------------------------------
(* Attribute Resolver, Span Tree Builder, Text Flattener, Ruby Decomposer *)

localName(el) == el.nodeName

getAttrScanOnly(el, target) ==
    LET hits == {i \in 1..Len(el.attributes) :
                    el.attributes[i].localName = target}
    IN IF hits = {} THEN Null
       ELSE el.attributes[MinOf(hits)].value

getAttr(el, target) ==
    LET direct == getAttribute(el, <<"", target>>)
        hits == {i \in 1..Len(el.attributes) :
                    \/ el.attributes[i].localName = target
                    \/ AttrName(el.attributes[i]) = <<"", target>>
                    \/ /\ el.attributes[i].prefix # ""
                       /\ el.attributes[i].localName = target}
    IN IF direct # Null THEN direct
       ELSE IF hits = {} THEN Null
       ELSE el.attributes[MinOf(hits)].value

RECURSIVE parseSpan(_)
RECURSIVE parseSpanChildNodes(_, _)
RECURSIVE parseSpanChildNodesNoTail(_, _)

parseSpanChildNodesNoTail(nodes, span) ==
    IF nodes = <<>> THEN span
    ELSE LET node == Head(nodes)
             next ==
                IF node.nodeType = "TEXT_NODE"
                THEN [span EXCEPT !.text = @ \o node.data]
                ELSE IF localName(node) = "span"
                     THEN [span EXCEPT !.children = Append(@, parseSpan(node))]
                     ELSE span
         IN parseSpanChildNodesNoTail(Tail(nodes), next)

(* the loop of parseSpan over spanEl.childNodes; lastChild is the last
   element of span.children once there is one *)
parseSpanChildNodes(nodes, span) ==
    IF nodes = <<>> THEN span
    ELSE LET node == Head(nodes)
             n == Len(span.children)
             next ==
                IF node.nodeType = "TEXT_NODE"
                THEN IF n > 0
                     THEN [span EXCEPT !.children[n].tail = @ \o node.data]
                     ELSE [span EXCEPT !.text = @ \o node.data]
                ELSE IF localName(node) = "span"
                     THEN [span EXCEPT !.children = Append(@, parseSpan(node))]
                     ELSE span
         IN parseSpanChildNodes(Tail(nodes), next)

parseSpan(spanEl) ==
    parseSpanChildNodes(spanEl.childNodes,
        [text |-> <<>>,
         begin |-> getAttr(spanEl, "begin"),
         end |-> getAttr(spanEl, "end"),
         role |-> getAttr(spanEl, "role"),
         lang |-> getAttr(spanEl, "lang"),
         emptyBeat |-> getAttr(spanEl, "empty-beat"),
         ruby |-> getAttr(spanEl, "ruby"),
         children |-> <<>>,
         tail |-> <<>>])

skipCurrent(span, skipRoles) ==
    IF Truthy(span.role) THEN span.role \in skipRoles ELSE FALSE

RECURSIVE flattenSpanTextDropTail(_, _)
flattenSpanTextDropTail(span, skipRoles) ==
    IF ~skipCurrent(span, skipRoles)
    THEN span.text \o ConcatAll([i \in 1..Len(span.children) |->
                        flattenSpanTextDropTail(span.children[i], skipRoles)])
                   \o span.tail
    ELSE <<>>

RECURSIVE flattenSpanText(_, _)
flattenSpanText(span, skipRoles) ==
    (IF ~skipCurrent(span, skipRoles)
     THEN span.text \o ConcatAll([i \in 1..Len(span.children) |->
                            flattenSpanText(span.children[i], skipRoles)])
     ELSE <<>>) \o span.tail

flattenSpanInnerText(span, skipRoles) ==
    IF ~skipCurrent(span, skipRoles)
    THEN span.text \o ConcatAll([i \in 1..Len(span.children) |->
                            flattenSpanText(span.children[i], skipRoles)])
    ELSE <<>>

RECURSIVE collectRubyTextSpans(_)
collectRubyTextSpans(span) ==
    (IF span.ruby = "text" THEN <<span>> ELSE <<>>)
        \o ConcatAll([i \in 1..Len(span.children) |->
                            collectRubyTextSpans(span.children[i])])

(* words.filter(w => w.word.trim().length > 0) *)
NonBlank(words) == SelectSeq(words, LAMBDA w : Len(Trim(w.word)) > 0)

RECURSIVE ReduceMinStart(_, _)
ReduceMinStart(words, pv) ==
    IF words = <<>> THEN pv
    ELSE ReduceMinStart(Tail(words), MathMin(pv, Head(words).startTime))

RECURSIVE ReduceMaxEnd(_, _)
ReduceMaxEnd(words, pv) ==
    IF words = <<>> THEN pv
    ELSE ReduceMaxEnd(Tail(words), MathMax(pv, Head(words).endTime))

computeWordTiming(words) ==
    LET filtered == NonBlank(words)
        start == ReduceMinStart(filtered, POSITIVE_INFINITY)
        end == ReduceMaxEnd(filtered, 0)
    IN <<IF start = POSITIVE_INFINITY THEN 0 ELSE start, end>>

SkipRoles == {"x-translation", "x-roman"}

RubyFieldAlways(rubyWords) == <<rubyWords>>

(* ruby: rubyWords.length > 0 ? rubyWords : undefined *)
RubyField(rubyWords) == IF Len(rubyWords) > 0 THEN <<rubyWords>> ELSE <<>>

RubyWordOfOwnOnly(rubySpan, containerStart, containerEnd) ==
    [word |-> flattenSpanInnerText(rubySpan, SkipRoles),
     startTime |-> IF Truthy(rubySpan.begin) THEN parseTimespan(rubySpan.begin)
                   ELSE 0,
     endTime |-> IF Truthy(rubySpan.end) THEN parseTimespan(rubySpan.end)
                 ELSE 0]

(* the map callback of createWordFromSpanElement that builds one segment *)
RubyWordOf(rubySpan, containerStart, containerEnd) ==
    [word |-> flattenSpanInnerText(rubySpan, SkipRoles),
     startTime |-> IF Truthy(rubySpan.begin) THEN parseTimespan(rubySpan.begin)
                   ELSE IF containerStart # <<>> THEN containerStart[1] ELSE 0,
     endTime |-> IF Truthy(rubySpan.end) THEN parseTimespan(rubySpan.end)
                 ELSE IF containerEnd # <<>> THEN containerEnd[1] ELSE 0]

(* emptyBeat and obscene of a word, from the attributes of the word element *)
WithBeatAndObscene(word, wordEl) ==
    LET emptyBeat == getAttr(wordEl, "empty-beat")
        obscene == getAttr(wordEl, "obscene")
    IN [word EXCEPT
          !.emptyBeat = IF Truthy(emptyBeat) THEN Number(emptyBeat) ELSE @,
          !.obscene = IF obscene = "true" THEN TRUE ELSE @]

createWordUntimedAsZero(wordEl, id) ==
    LET begin == getAttr(wordEl, "begin")
        end == getAttr(wordEl, "end")
    IN <<WithBeatAndObscene(
            [id |-> id,
             word |-> flattenSpanInnerText(parseSpan(wordEl), SkipRoles),
             startTime |-> IF Truthy(begin) THEN parseTimespan(begin) ELSE 0,
             endTime |-> IF Truthy(end) THEN parseTimespan(end) ELSE 0,
             obscene |-> FALSE,
             emptyBeat |-> 0,
             romanWord |-> <<>>,
             ruby |-> <<>>], wordEl)>>

(* returns <<>> for null, <<word>> for a word; id is the value of uid() *)
createWordFromSpanElement(wordEl, id) ==
    LET begin == getAttr(wordEl, "begin")
        end == getAttr(wordEl, "end")
        spanNode == parseSpan(wordEl)
    IN IF spanNode.ruby = "container"
       THEN LET baseIdx == {i \in 1..Len(spanNode.children) :
                                spanNode.children[i].ruby = "base"}
                baseText ==
                    IF baseIdx # {}
                    THEN flattenSpanInnerText(
                             spanNode.children[MinOf(baseIdx)], SkipRoles)
                    ELSE flattenSpanInnerText(spanNode, SkipRoles)
                rubyTextSpans == collectRubyTextSpans(spanNode)
                containerStart ==
                    IF Truthy(begin) THEN <<parseTimespan(begin)>> ELSE <<>>
                containerEnd ==
                    IF Truthy(end) THEN <<parseTimespan(end)>> ELSE <<>>
                rubyWords == [k \in 1..Len(rubyTextSpans) |->
                    RubyWordOf(rubyTextSpans[k], containerStart, containerEnd)]
                timing == computeWordTiming(rubyWords)
            IN <<WithBeatAndObscene(
                    [id |-> id,
                     word |-> baseText,
                     startTime |-> IF containerStart # <<>>
                                   THEN containerStart[1] ELSE timing[1],
                     endTime |-> IF containerEnd # <<>>
                                 THEN containerEnd[1] ELSE timing[2],
                     obscene |-> FALSE,
                     emptyBeat |-> 0,
                     romanWord |-> <<>>,
                     ruby |-> RubyField(rubyWords)], wordEl)>>
       ELSE IF ~Truthy(begin) \/ ~Truthy(end)
       THEN <<>>
       ELSE <<WithBeatAndObscene(
                    [id |-> id,
                     word |-> flattenSpanInnerText(spanNode, SkipRoles),
                     startTime |-> parseTimespan(begin),
                     endTime |-> parseTimespan(end),
                     obscene |-> FALSE,
                     emptyBeat |-> 0,
                     romanWord |-> <<>>,
                     ruby |-> <<>>], wordEl)>>

-----------------------------------------------------------------------------
(* Metadata Extractors.  The document is kept as the element lists its
   selectors range over, each in document order:
     translationTexts      iTunesMetadata > translations > translation > text
     transliterationTexts  iTunesMetadata > transliterations > transliteration > text
     metas                 meta
     songwriters           iTunesMetadata > songwriters > songwriter
     agents                ttm:agent
     body                  body p
   and parsererror tells whether DOMParser reported a parse error: it
   does not throw, the document it returns then holds a parsererror
   element.                                                               *)

IsBgRole(node) == getAttribute(node, <<"ttm", "role">>) = "x-bg"

(* main and bg of one text element, trimmed and stripped *)
LineMetadataOf(textEl) ==
    LET nodes == textEl.childNodes
        main == ConcatAll([i \in 1..Len(nodes) |->
                    IF nodes[i].nodeType = "TEXT_NODE"
                    THEN nodes[i].data ELSE <<>>])
        bg == ConcatAll([i \in 1..Len(nodes) |->
                    IF nodes[i].nodeType = "ELEMENT_NODE" /\ IsBgRole(nodes[i])
                    THEN textContent(nodes[i]) ELSE <<>>])
    IN [main |-> Trim(main), bg |-> StripParens(bg)]

(* text[for] *)
WithFor(texts) == SelectSeq(texts, LAMBDA t : hasAttribute(t, <<"", "for">>))

RECURSIVE translationsForEach(_, _)
translationsForEach(texts, map) ==
    IF texts = <<>> THEN map
    ELSE LET textEl == Head(texts)
             key == getAttribute(textEl, <<"", "for">>)
             md == LineMetadataOf(textEl)
         IN translationsForEach(Tail(texts),
                IF ~Truthy(key) THEN map
                ELSE IF Len(md.main) > 0 \/ Len(md.bg) > 0
                     THEN MapSet(map, key, md)
                     ELSE map)

(* the RomanWord entries one child node of a transliteration text contributes *)
MainWordsOf(node) ==
    IF /\ node.nodeType = "ELEMENT_NODE"
       /\ ~IsBgRole(node)
       /\ hasAttribute(node, <<"", "begin">>)
       /\ hasAttribute(node, <<"", "end">>)
    THEN <<[startTime |-> parseTimespan(getAttribute(node, <<"", "begin">>)),
            endTime |-> parseTimespan(getAttribute(node, <<"", "end">>)),
            text |-> textContent(node)]>>
    ELSE <<>>

BgWordsOf(node) ==
    IF node.nodeType = "ELEMENT_NODE" /\ IsBgRole(node)
    THEN LET nestedSpans == TimedSpanDescendants(node)
         IN [k \in 1..Len(nestedSpans) |->
              [startTime |->
                  parseTimespan(getAttribute(nestedSpans[k], <<"", "begin">>)),
               endTime |->
                  parseTimespan(getAttribute(nestedSpans[k], <<"", "end">>)),
               text |-> StripParens(textContent(nestedSpans[k]))]]
    ELSE <<>>

(* what one transliteration text element yields *)
RomanizationOf(textEl) ==
    LET nodes == textEl.childNodes
        N == 1..Len(nodes)
        lineRomanMain == ConcatAll([i \in N |->
            IF nodes[i].nodeType = "TEXT_NODE" THEN nodes[i].data ELSE <<>>])
        lineRomanBg == ConcatAll([i \in N |->
            IF /\ nodes[i].nodeType = "ELEMENT_NODE"
               /\ IsBgRole(nodes[i])
               /\ Len(TimedSpanDescendants(nodes[i])) = 0
            THEN textContent(nodes[i]) ELSE <<>>])
        mainWords == ConcatAll([i \in N |-> MainWordsOf(nodes[i])])
        bgWords == ConcatAll([i \in N |-> BgWordsOf(nodes[i])])
    IN [isWordByWord |-> Len(mainWords) > 0 \/ Len(bgWords) > 0,
        words |-> [main |-> mainWords, bg |-> bgWords],
        line |-> [main |-> Trim(lineRomanMain), bg |-> StripParens(lineRomanBg)]]

RECURSIVE wordRomanizationsForEach(_, _)
wordRomanizationsForEach(texts, map) ==
    IF texts = <<>> THEN map
    ELSE LET textEl == Head(texts)
             key == getAttribute(textEl, <<"", "for">>)
             r == RomanizationOf(textEl)
         IN wordRomanizationsForEach(Tail(texts),
                IF Truthy(key) /\ r.isWordByWord
                THEN MapSet(map, key, r.words) ELSE map)

RECURSIVE lineRomanizationsForEach(_, _)
lineRomanizationsForEach(texts, map) ==
    IF texts = <<>> THEN map
    ELSE LET textEl == Head(texts)
             key == getAttribute(textEl, <<"", "for">>)
             r == RomanizationOf(textEl)
         IN lineRomanizationsForEach(Tail(texts),
                IF Truthy(key) /\ (Len(r.line.main) > 0 \/ Len(r.line.bg) > 0)
                THEN MapSet(map, key, r.line) ELSE map)

TimedStepKeepPlain(textEl, maps) ==
    LET key == getAttribute(textEl, <<"", "for">>)
        md == LineMetadataOf(textEl)
    IN IF /\ Truthy(key)
          /\ (Len(md.main) > 0 \/ Len(md.bg) > 0)
          /\ HasSpanDescendant(textEl)
       THEN [timed |-> MapSet(maps.timed, key, md), plain |-> maps.plain]
       ELSE maps

(* one pass of the timed-translation loop: the pair of maps after it *)
TimedStep(textEl, maps) ==
    LET key == getAttribute(textEl, <<"", "for">>)
        md == LineMetadataOf(textEl)
    IN IF /\ Truthy(key)
          /\ (Len(md.main) > 0 \/ Len(md.bg) > 0)
          /\ HasSpanDescendant(textEl)
       THEN [timed |-> MapSet(maps.timed, key, md),
             plain |-> MapDelete(maps.plain, key)]
       ELSE maps

RECURSIVE timedTranslationsForEach(_, _)
timedTranslationsForEach(texts, maps) ==
    IF texts = <<>> THEN maps
    ELSE timedTranslationsForEach(Tail(texts), TimedStep(Head(texts), maps))

RECURSIVE amllMetaLoop(_, _)
amllMetaLoop(metas, md) ==
    IF metas = <<>> THEN md
    ELSE LET meta == Head(metas)
             key == getAttribute(meta, <<"", "key">>)
             value == getAttribute(meta, <<"", "value">>)
             existing == {i \in 1..Len(md) : md[i].key = key}
         IN amllMetaLoop(Tail(metas),
              IF meta.nodeName = "amll:meta" /\ Truthy(key) /\ Truthy(value)
              THEN IF existing # {}
                   THEN [md EXCEPT ![MinOf(existing)].value = Append(@, value)]
                   ELSE Append(md, [key |-> key, value |-> <<value>>])
              ELSE md)

songwriterValues(els) ==
    LET names == [i \in 1..Len(els) |-> Trim(textContent(els[i]))]
    IN SelectSeq(names, LAMBDA n : Len(n) > 0)

withSongwriters(md, els) ==
    IF Len(els) > 0 /\ Len(songwriterValues(els)) > 0
    THEN Append(md, [key |-> "songwriter", value |-> songwriterValues(els)])
    ELSE md

findMainAgentIdLast(agents) ==
    LET persons == {i \in 1..Len(agents) :
                        /\ getAttribute(agents[i], <<"", "type">>) = "person"
                        /\ Truthy(getAttribute(agents[i], <<"xml", "id">>))}
    IN IF persons = {} THEN "v1"
       ELSE getAttribute(agents[CHOOSE i \in persons : \A j \in persons : j <= i],
                         <<"xml", "id">>)

findMainAgentId(agents) ==
    LET persons == {i \in 1..Len(agents) :
                        /\ getAttribute(agents[i], <<"", "type">>) = "person"
                        /\ Truthy(getAttribute(agents[i], <<"xml", "id">>))}
    IN IF persons = {} THEN "v1"
       ELSE getAttribute(agents[MinOf(persons)], <<"xml", "id">>)

ExtractTranslations ==
    /\ pc = "translations"
    /\ itunesTranslations' =
            translationsForEach(WithFor(doc.translationTexts), EmptyMap)
    /\ pc' = "romanizations"
    /\ UNCHANGED <<EditorVars, queue, returned, doc, itunesLineRomanizations, itunesWordRomanizations,
                   itunesTimedTranslations, metadata, mainAgentId, lyricLines,
                   stack, lineIdx, uidCount, sourceOf, assembled>>

ExtractRomanizations ==
    /\ pc = "romanizations"
    /\ itunesWordRomanizations' =
            wordRomanizationsForEach(WithFor(doc.transliterationTexts), EmptyMap)
    /\ itunesLineRomanizations' =
            lineRomanizationsForEach(WithFor(doc.transliterationTexts), EmptyMap)
    /\ pc' = "timedTranslations"
    /\ UNCHANGED <<EditorVars, queue, returned, doc, itunesTranslations, itunesTimedTranslations, metadata,
                   mainAgentId, lyricLines, stack, lineIdx, uidCount, sourceOf,
                   assembled>>

ExtractTimedTranslations ==
    /\ pc = "timedTranslations"
    /\ LET maps == timedTranslationsForEach(WithFor(doc.translationTexts),
                        [timed |-> EmptyMap, plain |-> itunesTranslations])
       IN /\ itunesTimedTranslations' = maps.timed
          /\ itunesTranslations' = maps.plain
    /\ pc' = "metadata"
    /\ UNCHANGED <<EditorVars, queue, returned, doc, itunesLineRomanizations, itunesWordRomanizations,
                   metadata, mainAgentId, lyricLines, stack, lineIdx, uidCount,
                   sourceOf, assembled>>

ExtractMetadata ==
    /\ pc = "metadata"
    /\ metadata' = withSongwriters(amllMetaLoop(doc.metas, <<>>), doc.songwriters)
    /\ mainAgentId' = findMainAgentId(doc.agents)
    /\ pc' = "lines"
    /\ UNCHANGED <<EditorVars, queue, returned, doc, itunesTranslations, itunesLineRomanizations,
                   itunesWordRomanizations, itunesTimedTranslations, lyricLines,
                   stack, lineIdx, uidCount, sourceOf, assembled>>

-----------------------------------------------------------------------------
(* Line Builder: parseLineElement *)

(* body p[begin][end]: the indices in doc.body of the selected elements *)
SelectedLines ==
    LET keep == {i \in 1..Len(doc.body) :
                    /\ doc.body[i].nodeName = "p"
                    /\ hasAttribute(doc.body[i], <<"", "begin">>)
                    /\ hasAttribute(doc.body[i], <<"", "end">>)}
    IN [k \in 1..Cardinality(keep) |->
            CHOOSE i \in keep : Cardinality({j \in keep : j < i}) = k - 1]

(* map.get(key)?.field as an optional *)
FieldOf(map, key, field) ==
    IF key \in DOMAIN map THEN <<map[key][field]>> ELSE <<>>

(* a ?? b ?? "" over optionals *)
Coalesce(a, b) == IF a # <<>> THEN a[1] ELSE IF b # <<>> THEN b[1] ELSE <<>>

(* the copy [...sourceRomanList] a call works on *)
availableRomanWordsOf(itunesKey, isBG) ==
    IF Truthy(itunesKey) /\ itunesKey \in DOMAIN itunesWordRomanizations
    THEN IF isBG THEN itunesWordRomanizations[itunesKey].bg
                 ELSE itunesWordRomanizations[itunesKey].main
    ELSE <<>>

NewLineFrameOwnAgent(lineEl, path, isBG, isDuet, parentItunesKey, id) ==
    LET startTimeAttr == getAttribute(lineEl, <<"", "begin">>)
        endTimeAttr == getAttribute(lineEl, <<"", "end">>)
        explicit == Truthy(startTimeAttr) /\ Truthy(endTimeAttr)
        agent == getAttribute(lineEl, <<"ttm", "agent">>)
        itunesKey == IF isBG THEN parentItunesKey
                     ELSE getAttribute(lineEl, <<"itunes", "key">>)
        field == IF isBG THEN "bg" ELSE "main"
    IN [lineEl |-> lineEl,
        path |-> path,
        startTimeAttr |-> startTimeAttr,
        endTimeAttr |-> endTimeAttr,
        line |->
           [id |-> id,
            words |-> <<>>,
            translatedLyric |->
                IF Truthy(itunesKey)
                THEN Coalesce(FieldOf(itunesTimedTranslations, itunesKey, field),
                              FieldOf(itunesTranslations, itunesKey, field))
                ELSE <<>>,
            romanLyric |->
                IF Truthy(itunesKey)
                THEN Coalesce(FieldOf(itunesLineRomanizations, itunesKey, field),
                              <<>>)
                ELSE <<>>,
            isBG |-> isBG,
            isDuet |-> Truthy(agent) /\ agent # mainAgentId,
            startTime |-> IF explicit THEN parseTimespan(startTimeAttr) ELSE 0,
            endTime |-> IF explicit THEN parseTimespan(endTimeAttr) ELSE 0,
            ignoreSync |-> FALSE],
        haveBg |-> FALSE,
        itunesKey |-> itunesKey,
        availableRomanWords |-> availableRomanWordsOf(itunesKey, isBG),
        i |-> 1,
        phase |-> "children"]

NewLineFrameOwnKey(lineEl, path, isBG, isDuet, parentItunesKey, id) ==
    LET startTimeAttr == getAttribute(lineEl, <<"", "begin">>)
        endTimeAttr == getAttribute(lineEl, <<"", "end">>)
        explicit == Truthy(startTimeAttr) /\ Truthy(endTimeAttr)
        agent == getAttribute(lineEl, <<"ttm", "agent">>)
        itunesKey == getAttribute(lineEl, <<"itunes", "key">>)
        field == IF isBG THEN "bg" ELSE "main"
    IN [lineEl |-> lineEl,
        path |-> path,
        startTimeAttr |-> startTimeAttr,
        endTimeAttr |-> endTimeAttr,
        line |->
           [id |-> id,
            words |-> <<>>,
            translatedLyric |->
                IF Truthy(itunesKey)
                THEN Coalesce(FieldOf(itunesTimedTranslations, itunesKey, field),
                              FieldOf(itunesTranslations, itunesKey, field))
                ELSE <<>>,
            romanLyric |->
                IF Truthy(itunesKey)
                THEN Coalesce(FieldOf(itunesLineRomanizations, itunesKey, field),
                              <<>>)
                ELSE <<>>,
            isBG |-> isBG,
            isDuet |-> IF isBG THEN isDuet
                       ELSE Truthy(agent) /\ agent # mainAgentId,
            startTime |-> IF explicit THEN parseTimespan(startTimeAttr) ELSE 0,
            endTime |-> IF explicit THEN parseTimespan(endTimeAttr) ELSE 0,
            ignoreSync |-> FALSE],
        haveBg |-> FALSE,
        itunesKey |-> itunesKey,
        availableRomanWords |-> availableRomanWordsOf(itunesKey, isBG),
        i |-> 1,
        phase |-> "children"]

(* the state of a call before its loop over the child nodes *)
NewLineFrame(lineEl, path, isBG, isDuet, parentItunesKey, id) ==
    LET startTimeAttr == getAttribute(lineEl, <<"", "begin">>)
        endTimeAttr == getAttribute(lineEl, <<"", "end">>)
        explicit == Truthy(startTimeAttr) /\ Truthy(endTimeAttr)
        agent == getAttribute(lineEl, <<"ttm", "agent">>)
        itunesKey == IF isBG THEN parentItunesKey
                     ELSE getAttribute(lineEl, <<"itunes", "key">>)
        field == IF isBG THEN "bg" ELSE "main"
    IN [lineEl |-> lineEl,
        path |-> path,
        startTimeAttr |-> startTimeAttr,
        endTimeAttr |-> endTimeAttr,
        line |->
           [id |-> id,
            words |-> <<>>,
            translatedLyric |->
                IF Truthy(itunesKey)
                THEN Coalesce(FieldOf(itunesTimedTranslations, itunesKey, field),
                              FieldOf(itunesTranslations, itunesKey, field))
                ELSE <<>>,
            romanLyric |->
                IF Truthy(itunesKey)
                THEN Coalesce(FieldOf(itunesLineRomanizations, itunesKey, field),
                              <<>>)
                ELSE <<>>,
            isBG |-> isBG,
            isDuet |-> IF isBG THEN isDuet
                       ELSE Truthy(agent) /\ agent # mainAgentId,
            startTime |-> IF explicit THEN parseTimespan(startTimeAttr) ELSE 0,
            endTime |-> IF explicit THEN parseTimespan(endTimeAttr) ELSE 0,
            ignoreSync |-> FALSE],
        haveBg |-> FALSE,
        itunesKey |-> itunesKey,
        availableRomanWords |-> availableRomanWordsOf(itunesKey, isBG),
        i |-> 1,
        phase |-> "children"]

(* the word a bare text node becomes *)
textNodeWord(text, line, id) ==
    [id |-> id,
     word |-> text,
     startTime |-> IF Len(Trim(text)) > 0 THEN line.startTime ELSE 0,
     endTime |-> IF Len(Trim(text)) > 0 THEN line.endTime ELSE 0,
     obscene |-> FALSE,
     emptyBeat |-> 0,
     romanWord |-> <<>>,
     ruby |-> <<>>]

matchRomanWordKeepEntry(word, availableRomanWords) ==
    LET matches == {k \in 1..Len(availableRomanWords) :
                        /\ availableRomanWords[k].startTime = word.startTime
                        /\ availableRomanWords[k].endTime = word.endTime}
    IN IF Len(availableRomanWords) > 0 /\ matches # {}
       THEN [word |-> [word EXCEPT
                          !.romanWord = availableRomanWords[MinOf(matches)].text],
             pool |-> availableRomanWords]
       ELSE [word |-> word, pool |-> availableRomanWords]

(* Word-Romanization Matching of one word against the pool of the call *)
matchRomanWord(word, availableRomanWords) ==
    LET matches == {k \in 1..Len(availableRomanWords) :
                        /\ availableRomanWords[k].startTime = word.startTime
                        /\ availableRomanWords[k].endTime = word.endTime}
    IN IF Len(availableRomanWords) > 0 /\ matches # {}
       THEN [word |-> [word EXCEPT
                          !.romanWord = availableRomanWords[MinOf(matches)].text],
             pool |-> RemoveAt(availableRomanWords, MinOf(matches))]
       ELSE [word |-> word, pool |-> availableRomanWords]

deriveLineTimingAlways(line, startTimeAttr, endTimeAttr) ==
    [line EXCEPT
        !.startTime = ReduceMinStart(NonBlank(line.words), POSITIVE_INFINITY),
        !.endTime = ReduceMaxEnd(NonBlank(line.words), 0)]

deriveLineTimingUnfiltered(line, startTimeAttr, endTimeAttr) ==
    IF ~Truthy(startTimeAttr) \/ ~Truthy(endTimeAttr)
    THEN [line EXCEPT
            !.startTime = ReduceMinStart(line.words, POSITIVE_INFINITY),
            !.endTime = ReduceMaxEnd(line.words, 0)]
    ELSE line

(* timing of a line from its words when begin or end is missing *)
deriveLineTiming(line, startTimeAttr, endTimeAttr) ==
    IF ~Truthy(startTimeAttr) \/ ~Truthy(endTimeAttr)
    THEN [line EXCEPT
            !.startTime = ReduceMinStart(NonBlank(line.words), POSITIVE_INFINITY),
            !.endTime = ReduceMaxEnd(NonBlank(line.words), 0)]
    ELSE line

stripFirstWordKeepEmpty(words) ==
    IF words # <<>> /\ StartsWithOpenParen(words[1].word)
    THEN [words EXCEPT ![1].word = Tail(@)]
    ELSE words

(* the parentheses of a background line *)
stripFirstWord(words) ==
    IF words # <<>> /\ StartsWithOpenParen(words[1].word)
    THEN IF Len(Tail(words[1].word)) = 0
         THEN Tail(words)
         ELSE [words EXCEPT ![1].word = Tail(@)]
    ELSE words

stripLastWord(words) ==
    LET n == Len(words)
    IN IF words # <<>> /\ EndsWithCloseParen(words[n].word)
       THEN IF Len(words[n].word) = 1
            THEN SubSeq(words, 1, n - 1)
            ELSE [words EXCEPT ![n].word = SubSeq(@, 1, Len(@) - 1)]
       ELSE words

backgroundSurgery(line) ==
    IF line.isBG
    THEN [line EXCEPT !.words = stripLastWord(stripFirstWord(@))]
    ELSE line

pushLineDropPopped(lines, line, haveBg) ==
    IF haveBg
    THEN IF lines # <<>>
         THEN SubSeq(lines, 1, Len(lines) - 1) \o <<line>>
         ELSE <<line>>
    ELSE Append(lines, line)

pushLineNoSwap(lines, line, haveBg) == Append(lines, line)

(* the ordering discipline that ends a call *)
pushLine(lines, line, haveBg) ==
    IF haveBg
    THEN IF lines # <<>>
         THEN SubSeq(lines, 1, Len(lines) - 1) \o <<line, lines[Len(lines)]>>
         ELSE <<line>>
    ELSE Append(lines, line)

Top == stack[Len(stack)]

InLoop == /\ pc = "lines"
          /\ stack # <<>>
          /\ Top.phase = "children"
          /\ Top.i <= Len(Top.lineEl.childNodes)

Child == Top.lineEl.childNodes[Top.i]

ChildRole == getAttribute(Child, <<"ttm", "role">>)

IsRoleSpan == Child.nodeName = "span" /\ Truthy(ChildRole)

MetaVars == <<doc, itunesTranslations, itunesLineRomanizations,
              itunesWordRomanizations, itunesTimedTranslations, metadata,
              mainAgentId, queue>>

(* the driver calls parseLineElement(lineEl, false, false, null) *)
EnterLine ==
    /\ pc = "lines"
    /\ stack = <<>>
    /\ lineIdx <= Len(SelectedLines)
    /\ LET at == SelectedLines[lineIdx]
           id == uidCount + 1
       IN /\ stack' = <<NewLineFrame(doc.body[at], <<at>>, FALSE, FALSE, Null, id)>>
          /\ uidCount' = id
          /\ sourceOf' = MapSet(sourceOf, id, <<at>>)
    /\ lineIdx' = lineIdx + 1
    /\ UNCHANGED <<EditorVars, returned, MetaVars, pc, lyricLines, assembled>>

(* a text node becomes a word *)
TextNodeWord ==
    /\ InLoop
    /\ Child.nodeType = "TEXT_NODE"
    /\ LET id == uidCount + 1
       IN /\ stack' = [stack EXCEPT
                ![Len(stack)].line.words =
                    Append(@, textNodeWord(Child.data, Top.line, id)),
                ![Len(stack)].i = @ + 1]
          /\ uidCount' = id
          /\ sourceOf' = MapSet(sourceOf, id, Append(Top.path, Top.i))
    /\ UNCHANGED <<EditorVars, returned, MetaVars, pc, lyricLines, lineIdx, assembled>>

(* a span with role x-bg: the recursive call begins *)
BackgroundSpan ==
    /\ InLoop
    /\ Child.nodeType = "ELEMENT_NODE"
    /\ IsRoleSpan
    /\ ChildRole = "x-bg"
    /\ LET id == uidCount + 1
       IN /\ stack' = Append(stack,
                NewLineFrame(Child, Append(Top.path, Top.i), TRUE,
                             Top.line.isDuet, Top.itunesKey, id))
          /\ uidCount' = id
          /\ sourceOf' = MapSet(sourceOf, id, Append(Top.path, Top.i))
    /\ UNCHANGED <<EditorVars, returned, MetaVars, pc, lyricLines, lineIdx, assembled>>

AnnotationSpanOverrides ==
    /\ InLoop
    /\ Child.nodeType = "ELEMENT_NODE"
    /\ IsRoleSpan
    /\ ChildRole # "x-bg"
    /\ stack' = [stack EXCEPT
          ![Len(stack)].line.translatedLyric =
              IF ChildRole = "x-translation" THEN innerHTML(Child) ELSE @,
          ![Len(stack)].line.romanLyric =
              IF ChildRole = "x-roman" THEN innerHTML(Child) ELSE @,
          ![Len(stack)].i = @ + 1]
    /\ UNCHANGED <<EditorVars, returned, MetaVars, pc, lyricLines, lineIdx, uidCount, sourceOf,
                   assembled>>

(* a span with another role: inline translation, inline romanization,
   or a role the Line Builder does not know *)
AnnotationSpan ==
    /\ InLoop
    /\ Child.nodeType = "ELEMENT_NODE"
    /\ IsRoleSpan
    /\ ChildRole # "x-bg"
    /\ stack' = [stack EXCEPT
          ![Len(stack)].line.translatedLyric =
              IF ChildRole = "x-translation" /\ Len(@) = 0
              THEN innerHTML(Child) ELSE @,
          ![Len(stack)].line.romanLyric =
              IF ChildRole = "x-roman" /\ Len(@) = 0
              THEN innerHTML(Child) ELSE @,
          ![Len(stack)].i = @ + 1]
    /\ UNCHANGED <<EditorVars, returned, MetaVars, pc, lyricLines, lineIdx, uidCount, sourceOf,
                   assembled>>

(* any other element: a timed word, or nothing when the Word Builder
   returns null *)
WordSpan ==
    /\ InLoop
    /\ Child.nodeType = "ELEMENT_NODE"
    /\ ~IsRoleSpan
    /\ LET id == uidCount + 1
           made == createWordFromSpanElement(Child, id)
           m == matchRomanWord(made[1], Top.availableRomanWords)
       IN IF made = <<>>
          THEN /\ stack' = [stack EXCEPT ![Len(stack)].i = @ + 1]
               /\ UNCHANGED <<uidCount, sourceOf>>
          ELSE /\ stack' = [stack EXCEPT
                      ![Len(stack)].line.words = Append(@, m.word),
                      ![Len(stack)].availableRomanWords = m.pool,
                      ![Len(stack)].i = @ + 1]
               /\ uidCount' = id
               /\ sourceOf' = MapSet(sourceOf, id, Append(Top.path, Top.i))
    /\ UNCHANGED <<EditorVars, returned, MetaVars, pc, lyricLines, lineIdx, assembled>>

(* the loop is over: timing from the words when begin or end is missing *)
DeriveTiming ==
    /\ pc = "lines"
    /\ stack # <<>>
    /\ Top.phase = "children"
    /\ Top.i > Len(Top.lineEl.childNodes)
    /\ stack' = [stack EXCEPT
          ![Len(stack)].line =
              deriveLineTiming(@, Top.startTimeAttr, Top.endTimeAttr),
          ![Len(stack)].phase = "surgery"]
    /\ assembled' = MapSet(assembled, Top.line.id, Top.line.words)
    /\ UNCHANGED <<EditorVars, returned, MetaVars, pc, lyricLines, lineIdx, uidCount, sourceOf>>

BackgroundSurgery ==
    /\ pc = "lines"
    /\ stack # <<>>
    /\ Top.phase = "surgery"
    /\ stack' = [stack EXCEPT
          ![Len(stack)].line = backgroundSurgery(@),
          ![Len(stack)].phase = "append"]
    /\ UNCHANGED <<EditorVars, returned, MetaVars, pc, lyricLines, lineIdx, uidCount, sourceOf,
                   assembled>>

(* the call appends its line and returns; a caller goes on after the
   recursive call with haveBg = true *)
AppendLine ==
    /\ pc = "lines"
    /\ stack # <<>>
    /\ Top.phase = "append"
    /\ lyricLines' = pushLine(lyricLines, Top.line, Top.haveBg)
    /\ stack' =
          IF Len(stack) = 1 THEN <<>>
          ELSE [SubSeq(stack, 1, Len(stack) - 1) EXCEPT
                    ![Len(stack) - 1].haveBg = TRUE,
                    ![Len(stack) - 1].i = @ + 1]
    /\ UNCHANGED <<EditorVars, returned, MetaVars, pc, lineIdx, uidCount, sourceOf, assembled>>

(* return { metadata, lyricLines } *)
Return ==
    /\ pc = "lines"
    /\ stack = <<>>
    /\ lineIdx > Len(SelectedLines)
    /\ pc' = "done"
    /\ returned' = Append(returned, [metadata |-> metadata,
                                     lyricLines |-> lyricLines])
    /\ UNCHANGED <<EditorVars, MetaVars, lyricLines, stack, lineIdx, uidCount, sourceOf,
                   assembled>>

(* the caller calls parseLyric with its next document: a call starts
   from empty maps and an empty output, and uid() goes on counting *)
parseLyric ==
    /\ pc = "done"
    /\ queue # <<>>
    /\ doc' = Head(queue)
    /\ queue' = Tail(queue)
    /\ pc' = "translations"
    /\ itunesTranslations' = EmptyMap
    /\ itunesLineRomanizations' = EmptyMap
    /\ itunesWordRomanizations' = EmptyMap
    /\ itunesTimedTranslations' = EmptyMap
    /\ metadata' = <<>>
    /\ mainAgentId' = "v1"
    /\ lyricLines' = <<>>
    /\ stack' = <<>>
    /\ lineIdx' = 1
    /\ sourceOf' = EmptyMap
    /\ assembled' = EmptyMap
    /\ UNCHANGED <<EditorVars, uidCount, returned>>

-----------------------------------------------------------------------------
(* The editor state layer: the colour system (hook/useColorAssets.ts over  *)
(* states/colorSystem.ts) and the ruby editor (RubyEditor).  Of the colour *)
(* system the folders and the active folder are kept; slotCount and        *)
(* orientation, which no operation on folders reads, are left out.  The    *)
(* editor shares no state with the parser, so its operations are explored  *)
(* from the state in which the caller has parsed all its documents.        *)

(* colors: the first Slots slots of the 100 *)
Slots == 2

EmptyColors == [k \in 1..Slots |-> ""]

defaultFolders ==
    <<[id |-> "default", name |-> "default palette",
       colors |-> [k \in 1..Slots |-> IF k = 1 THEN "#FFDD88" ELSE "#77BBDD"]]>>

defaultSystem == [activeFolderId |-> "default", folders |-> defaultFolders]

FolderIds(s) == {s.folders[k].id : k \in 1..Len(s.folders)}

(* ids a caller can pass: those of the folders in the store, those of the
   folders on screen, and one no folder has *)
CallableIds == FolderIds(system) \cup FolderIds(rendered) \cup {"gone"}

FolderNames == {"n"}

ColorHexes == {"#c"}

Editing == pc = "done" /\ queue = <<>> /\ edits > 0

ParserVars == <<doc, pc, itunesTranslations, itunesLineRomanizations,
                itunesWordRomanizations, itunesTimedTranslations, metadata,
                mainAgentId, lyricLines, stack, lineIdx, uidCount, sourceOf,
                assembled, queue, returned>>

RubyVars == <<lyricLinesAtom, wordAtom, rubyWarningShown, warningOpen>>

(* const [system, setSystem] = useAtom(colorSystemAtom): a render of the
   component gives the handlers the value of the atom *)
useColorAssets ==
    /\ Editing
    /\ rendered # system
    /\ rendered' = system
    /\ UNCHANGED <<ParserVars, RubyVars, system, thrown, clock, stray, edits>>

saveColorToSlotUpdate(prev, folderId, slotIndex, colorHex) ==
    LET found == {k \in 1..Len(prev.folders) : prev.folders[k].id = folderId}
    IN IF found = {} THEN prev
       ELSE LET newColors ==
                    [prev.folders[MinOf(found)].colors EXCEPT ![slotIndex + 1] = colorHex]
            IN [prev EXCEPT !.folders =
                    [k \in 1..Len(prev.folders) |->
                        IF prev.folders[k].id = folderId
                        THEN [prev.folders[k] EXCEPT !.colors = newColors]
                        ELSE prev.folders[k]]]

saveColorToSlot ==
    /\ Editing
    /\ \E folderId \in CallableIds, slotIndex \in 0..(Slots - 1), colorHex \in ColorHexes :
          system' = saveColorToSlotUpdate(system, folderId, slotIndex, colorHex)
    /\ edits' = edits - 1
    /\ UNCHANGED <<ParserVars, RubyVars, rendered, thrown, clock, stray>>

(* Date.now() does not go back, and two calls in the same millisecond
   read the same value *)
addFolder ==
    /\ Editing
    /\ \E name \in FolderNames, now \in {clock, clock + 1} :
          LET newId == ToString(now)
          IN /\ system' = [activeFolderId |-> newId,
                           folders |-> Append(system.folders,
                                [id |-> newId, name |-> name, colors |-> EmptyColors])]
             /\ clock' = now
    /\ edits' = edits - 1
    /\ UNCHANGED <<ParserVars, RubyVars, rendered, thrown, stray>>

deleteFolderKeepActive(prev, id) ==
    <<[prev EXCEPT !.folders = SelectSeq(prev.folders, LAMBDA f : f.id # id)]>>

(* the updater of deleteFolder: the next value, or <<>> when reading
   newFolders[0].id throws a TypeError *)
deleteFolderUpdate(prev, id) ==
    LET newFolders == SelectSeq(prev.folders, LAMBDA f : f.id # id)
    IN IF prev.activeFolderId = id
       THEN IF newFolders = <<>> THEN <<>>
            ELSE <<[activeFolderId |-> newFolders[1].id, folders |-> newFolders]>>
       ELSE <<[activeFolderId |-> prev.activeFolderId, folders |-> newFolders]>>

deleteFolder ==
    /\ Editing
    /\ \E id \in CallableIds :
          /\ stray' = (stray \/ id \notin FolderIds(system))
          /\ IF Len(rendered.folders) <= 1
             THEN UNCHANGED <<system, thrown>>
             ELSE LET next == deleteFolderUpdate(system, id)
                  IN IF next = <<>>
                     THEN thrown' = TRUE /\ UNCHANGED system
                     ELSE system' = next[1] /\ UNCHANGED thrown
    /\ edits' = edits - 1
    /\ UNCHANGED <<ParserVars, RubyVars, rendered, clock>>

renameFolder ==
    /\ Editing
    /\ \E id \in CallableIds, newName \in FolderNames :
          system' = [system EXCEPT !.folders =
                        [k \in 1..Len(system.folders) |->
                            IF system.folders[k].id = id
                            THEN [system.folders[k] EXCEPT !.name = newName]
                            ELSE system.folders[k]]]
    /\ edits' = edits - 1
    /\ UNCHANGED <<ParserVars, RubyVars, rendered, thrown, clock, stray>>

setActiveFolder ==
    /\ Editing
    /\ \E folderId \in CallableIds :
          /\ system' = [system EXCEPT !.activeFolderId = folderId]
          /\ stray' = (stray \/ folderId \notin FolderIds(system))
    /\ edits' = edits - 1
    /\ UNCHANGED <<ParserVars, RubyVars, rendered, thrown, clock>>

(* system.folders.find((f) => f.id === system.activeFolderId), on the
   value the render gave *)
getActiveFolder ==
    LET found == {k \in 1..Len(rendered.folders) :
                    rendered.folders[k].id = rendered.activeFolderId}
    IN IF found = {} THEN <<>> ELSE <<rendered.folders[MinOf(found)]>>

ColorVars == <<system, rendered, thrown, clock, stray>>

(* the editor state layer takes the lines parseLyric returned *)
openProject ==
    /\ Editing
    /\ lyricLinesAtom = Null
    /\ lyricLinesAtom' = lyricLines
    /\ UNCHANGED <<ParserVars, ColorVars, wordAtom, rubyWarningShown,
                   warningOpen, edits>>

(* a RubyEditor is mounted on a word: wordAtom as the place of the word *)
RubyEditor ==
    /\ Editing
    /\ lyricLinesAtom # Null
    /\ wordAtom = Null
    /\ \E i \in 1..Len(lyricLinesAtom) :
          \E j \in 1..Len(lyricLinesAtom[i].words) : wordAtom' = <<i, j>>
    /\ UNCHANGED <<ParserVars, ColorVars, lyricLinesAtom, rubyWarningShown,
                   warningOpen, edits>>

(* store.get(wordAtom) *)
currentWord == lyricLinesAtom[wordAtom[1]].words[wordAtom[2]]

(* word.ruby ?? [] *)
RubyOf(word) == IF word.ruby = <<>> THEN <<>> ELSE word.ruby[1]

(* arr[index] as an optional *)
At(arr, index) ==
    IF index >= 0 /\ index < Len(arr) THEN <<arr[index + 1]>> ELSE <<>>

mergedSegmentKeepTimes(prevRuby, currentRuby, mergedText) ==
    [prevRuby EXCEPT !.word = mergedText]

(* prevRuby after lines 148-156 *)
mergedSegment(prevRuby, currentRuby, mergedText) ==
    [word |-> mergedText,
     startTime |-> IF prevRuby.startTime <= currentRuby.startTime
                   THEN prevRuby.startTime ELSE currentRuby.startTime,
     endTime |-> IF prevRuby.endTime >= currentRuby.endTime
                 THEN prevRuby.endTime ELSE currentRuby.endTime]

(* what the updater of a handler does to the word it finds: the word
   after it, or <<>> when the updater returns at once *)
rubyUpdate(op, word, index, value) ==
    CASE op = "addRubyWord" ->
            <<[word EXCEPT !.ruby =
                <<Append(RubyOf(word), [word |-> <<>>,
                                        startTime |-> word.startTime,
                                        endTime |-> word.endTime])>>]>>
      [] op = "updateRubyWord" ->
            IF word.ruby = <<>> \/ At(word.ruby[1], index) = <<>> THEN <<>>
            ELSE <<[word EXCEPT !.ruby[1][index + 1].word = value]>>
      [] op = "removeRubyWord" ->
            IF word.ruby = <<>> \/ At(word.ruby[1], index) = <<>> THEN <<>>
            ELSE <<[word EXCEPT !.ruby[1] = RemoveAt(@, index + 1)]>>
      [] op = "mergeRubyWithPrevious" ->
            IF \/ word.ruby = <<>>
               \/ At(word.ruby[1], index) = <<>>
               \/ At(word.ruby[1], index - 1) = <<>>
            THEN <<>>
            ELSE <<[word EXCEPT !.ruby[1] =
                    RemoveAt([@ EXCEPT ![index] =
                                mergedSegment(@, word.ruby[1][index + 1], value)],
                             index + 1)]>>

(* editLyricLines((state) => { for (const line of state.lyricLines) for
   (const word of line.words) ... }): in every line the first word with
   the id is edited, and a return ends the updater *)
RECURSIVE editLyricLines(_, _, _, _, _)
editLyricLines(lines, id, op, index, value) ==
    IF lines = <<>> THEN <<>>
    ELSE LET line == Head(lines)
             hits == {j \in 1..Len(line.words) : line.words[j].id = id}
         IN IF hits = {}
            THEN <<line>> \o editLyricLines(Tail(lines), id, op, index, value)
            ELSE LET r == rubyUpdate(op, line.words[MinOf(hits)], index, value)
                 IN IF r = <<>> THEN lines
                    ELSE <<[line EXCEPT !.words[MinOf(hits)] = r[1]]>>
                            \o editLyricLines(Tail(lines), id, op, index, value)

(* lyricState.lyricLines.some((line) => line.words.some(...)) *)
hasRuby ==
    \E i \in 1..Len(lyricLinesAtom) :
        \E j \in 1..Len(lyricLinesAtom[i].words) :
            Len(RubyOf(lyricLinesAtom[i].words[j])) > 0

(* the indices a handler is called with: those of the segments on
   screen and the one after them *)
RubyIndices == 0..Len(RubyOf(currentWord))

RubyTexts == {<<"x">>}

addRubyWord ==
    /\ Editing
    /\ wordAtom # Null
    /\ rubyWarningShown' = TRUE
    /\ warningOpen' = (warningOpen \/ (~rubyWarningShown /\ ~hasRuby))
    /\ lyricLinesAtom' =
          editLyricLines(lyricLinesAtom, currentWord.id, "addRubyWord", 0, <<>>)
    /\ edits' = edits - 1
    /\ UNCHANGED <<ParserVars, ColorVars, wordAtom>>

updateRubyWord ==
    /\ Editing
    /\ wordAtom # Null
    /\ \E index \in RubyIndices, value \in RubyTexts :
          lyricLinesAtom' =
              editLyricLines(lyricLinesAtom, currentWord.id, "updateRubyWord",
                             index, value)
    /\ edits' = edits - 1
    /\ UNCHANGED <<ParserVars, ColorVars, wordAtom, rubyWarningShown, warningOpen>>

removeRubyWord ==
    /\ Editing
    /\ wordAtom # Null
    /\ \E index \in RubyIndices :
          lyricLinesAtom' =
              editLyricLines(lyricLinesAtom, currentWord.id, "removeRubyWord",
                             index, <<>>)
    /\ edits' = edits - 1
    /\ UNCHANGED <<ParserVars, ColorVars, wordAtom, rubyWarningShown, warningOpen>>

(* lyricLinesAtom after mergeRubyWithPrevious(index) *)
mergedLyricLines(index) ==
    LET prev == At(RubyOf(currentWord), index - 1)
        cur == At(RubyOf(currentWord), index)
        prevText == IF prev = <<>> THEN <<>> ELSE prev[1].word
        currentText == IF cur = <<>> THEN <<>> ELSE cur[1].word
        mergedText == prevText \o currentText
    IN editLyricLines(lyricLinesAtom, currentWord.id,
                      "mergeRubyWithPrevious", index, mergedText)

mergeRubyWithPrevious ==
    /\ Editing
    /\ wordAtom # Null
    /\ \E index \in RubyIndices : lyricLinesAtom' = mergedLyricLines(index)
    /\ edits' = edits - 1
    /\ UNCHANGED <<ParserVars, ColorVars, wordAtom, rubyWarningShown, warningOpen>>

Next ==
    \/ parseLyric
    \/ ExtractTranslations
    \/ ExtractRomanizations
    \/ ExtractTimedTranslations
    \/ ExtractMetadata
    \/ EnterLine
    \/ TextNodeWord
    \/ BackgroundSpan
    \/ AnnotationSpan
    \/ WordSpan
    \/ DeriveTiming
    \/ BackgroundSurgery
    \/ AppendLine
    \/ Return
    \/ useColorAssets
    \/ saveColorToSlot
    \/ addFolder
    \/ deleteFolder
    \/ renameFolder
    \/ setActiveFolder
    \/ openProject
    \/ RubyEditor
    \/ addRubyWord
    \/ updateRubyWord
    \/ removeRubyWord
    \/ mergeRubyWithPrevious

-----------------------------------------------------------------------------
(* Documents *)

MaxChildren == 3
MaxTail == 1
MaxWords == 2
MaxPool == 2
MaxRomanWords == 2
MaxTexts == 2
MaxRubyChildren == 2

SeqsUpTo(S, n) == UNION {[1..k -> S] : k \in 0..n}

Timed(b, e) == <<Attr("", "begin", b), Attr("", "end", e)>>

Role(r) == <<Attr("ttm", "role", r)>>

Key(k) == <<Attr("itunes", "key", k)>>

Span(attrs, children) == Element("span", attrs, children)

P(attrs, children) == Element("p", attrs, children)

Word(b, e, text) == Span(Timed(b, e), <<TextNode(text)>>)

Bg(attrs, children) == Span(Role("x-bg") \o attrs, children)

TextFor(k, children) == Element("text", <<Attr("", "for", k)>>, children)

Doc(translations, transliterations, body) ==
    [translationTexts |-> translations,
     transliterationTexts |-> transliterations,
     metas |-> <<>>, songwriters |-> <<>>, agents |-> <<>>,
     body |-> body,
     parsererror |-> FALSE]

(* one document with every kind of node the Line Builder tells apart *)
SampleDoc ==
    [translationTexts |->
        <<TextFor("L1", <<TextNode(<<"h", "i">>),
                          Span(Role("x-bg"), <<TextNode(<<"(", "y", "o", ")">>)>>)>>),
          TextFor("L2", <<TextNode(<<"t">>), Span(<<>>, <<TextNode(<<"u">>)>>)>>)>>,
     transliterationTexts |->
        <<TextFor("L1", <<Word("0.0s", "0.5s", <<"n", "i">>),
                          Bg(<<>>, <<Word("1.0s", "1.5s", <<"(", "a", ")">>)>>)>>),
          TextFor("L2", <<TextNode(<<"r", "o">>)>>)>>,
     metas |->
        <<Element("amll:meta",
                  <<Attr("", "key", "album"), Attr("", "value", "A")>>, <<>>),
          Element("amll:meta",
                  <<Attr("", "key", "album"), Attr("", "value", "B")>>, <<>>)>>,
     songwriters |-> <<Element("songwriter", <<>>, <<TextNode(<<"s">>)>>)>>,
     agents |->
        <<Element("ttm:agent",
                  <<Attr("", "type", "person"), Attr("xml", "id", "v1")>>, <<>>),
          Element("ttm:agent",
                  <<Attr("", "type", "person"), Attr("xml", "id", "v2")>>, <<>>)>>,
     body |->
        <<P(Timed("0.0s", "2.0s") \o Key("L1") \o <<Attr("ttm", "agent", "v1")>>,
            <<Word("0.0s", "0.5s", <<"a">>),
              TextNode(<<" ">>),
              Word("0.5s", "1.0s", <<"b">>),
              Bg(<<>>, <<Word("1.0s", "1.5s", <<"(", "c", ")">>)>>),
              Span(Role("x-translation"), <<TextNode(<<"t">>)>>),
              Span(Role("x-roman"), <<TextNode(<<"r">>)>>)>>),
          P(Timed("2.0s", "3.0s") \o Key("L2") \o <<Attr("ttm", "agent", "v2")>>,
            <<Span(Timed("2.0s", "3.0s") \o <<Attr("", "ruby", "container")>>,
                   <<Span(<<Attr("", "ruby", "base")>>, <<TextNode(<<"k">>)>>),
                     Span(<<Attr("", "ruby", "text")>>, <<TextNode(<<"r">>)>>)>>),
              Span(<<>>, <<TextNode(<<"x">>)>>)>>)>>,
     parsererror |-> FALSE]

(* background spans: placement of x-bg children in a line *)
BgA == Bg(<<>>, <<Word("1.0s", "1.5s", <<"b">>)>>)

BgB == Bg(Timed("1.5s", "2.0s"), <<Word("1.5s", "2.0s", <<"c">>)>>)

BgNested == Bg(<<>>, <<Word("0.5s", "1.0s", <<"d">>), BgA>>)

BgChildPool == {Word("0.0s", "0.5s", <<"a">>), BgA, BgB, BgNested}

TailLines == {P(Timed("2.0s", "3.0s"), <<Word("2.0s", "3.0s", <<"e">>)>>),
              P(Timed("2.0s", "3.0s"), <<BgA>>)}

DocsBg ==
    {Doc(<<>>, <<>>, <<P(Timed("0.0s", "2.0s"), kids)>> \o tail) :
        kids \in SeqsUpTo(BgChildPool, MaxChildren),
        tail \in SeqsUpTo(TailLines, MaxTail)}

(* timing: lines with and without begin and end over the same words *)
TimingPool ==
    {TextNode(<<" ">>), TextNode(<<"a">>),
     Word("0.5s", "1.0s", <<"a">>), Word("1.0s", "2.0s", <<"b">>),
     Word("0.0s", "0.5s", <<" ">>),
     Word("0.0s", "0.5s", <<"(">>), Word("2.0s", "3.0s", <<")">>)}

TimingLines(kids) ==
    {P(Timed("1.0s", "1.5s"), kids),
     P(Timed("", "1.5s"), kids),
     P(Timed("1.0s", "1.5s"), <<Bg(<<>>, kids)>>),
     P(Timed("1.0s", "1.5s"), <<Bg(Timed("1.5s", "2.0s"), kids)>>),
     P(Timed("1.0s", "1.5s"), <<Bg(<<Attr("", "begin", "1.5s")>>, kids)>>)}

DocsTiming ==
    {Doc(<<>>, <<>>, <<line>>) :
        line \in UNION {TimingLines(kids) :
                            kids \in SeqsUpTo(TimingPool, MaxWords)}}

(* word-by-word romanization: a pool for key L1 and lines that use it *)
RomanEntryPool ==
    {Word("0.5s", "1.0s", <<"x">>), Word("0.5s", "1.0s", <<"y">>),
     Word("1.0s", "2.0s", <<"z">>),
     Bg(<<>>, <<Word("0.5s", "1.0s", <<"(", "w", ")">>)>>)}

RomanWordPool ==
    {Word("0.5s", "1.0s", <<"a">>), Word("1.0s", "2.0s", <<"b">>),
     TextNode(<<"c">>),
     Bg(<<>>, <<Word("0.5s", "1.0s", <<"d">>), Word("0.5s", "1.0s", <<"e">>)>>)}

RomanTails ==
    {<<>>, <<P(Timed("0.5s", "1.0s") \o Key("L1"),
               <<Word("0.5s", "1.0s", <<"f">>)>>)>>}

DocsRoman ==
    {Doc(<<>>, <<TextFor("L1", entries)>>,
         <<P(Timed("0.5s", "1.0s") \o Key("L1"), kids)>> \o tail) :
        entries \in SeqsUpTo(RomanEntryPool, MaxPool),
        kids \in SeqsUpTo(RomanWordPool, MaxRomanWords),
        tail \in RomanTails}

(* translations: plain and timed text elements for the same key *)
TransPool ==
    {TextFor("L1", <<TextNode(<<"a">>)>>),
     TextFor("L1", <<TextNode(<<"b">>), Span(<<>>, <<TextNode(<<"s">>)>>)>>),
     TextFor("L1", <<Span(Timed("0.0s", "1.0s"), <<TextNode(<<"s">>)>>)>>),
     TextFor("L1", <<TextNode(<<"c">>),
                     Span(Role("x-bg"), <<TextNode(<<"(", "d", ")">>)>>)>>),
     TextFor("L2", <<TextNode(<<"e">>)>>)}

TransBody ==
    <<P(Timed("0.0s", "1.0s") \o Key("L1"),
        <<Word("0.0s", "1.0s", <<"a">>),
          Bg(<<>>, <<Word("0.5s", "1.0s", <<"b">>)>>),
          Span(Role("x-translation"), <<TextNode(<<"i">>)>>)>>),
      P(Timed("1.0s", "2.0s") \o Key("L2"),
        <<Word("1.0s", "2.0s", <<"c">>)>>)>>

DocsTrans ==
    {Doc(texts, <<>>, TransBody) : texts \in SeqsUpTo(TransPool, MaxTexts)}

(* ruby: containers with and without timing over base, text and nested spans *)
Ruby(kind, attrs, children) == Span(<<Attr("", "ruby", kind)>> \o attrs, children)

RubyPool ==
    {TextNode(<<"k">>),
     Ruby("base", <<>>, <<TextNode(<<"b">>)>>),
     Ruby("text", <<>>, <<TextNode(<<"r">>)>>),
     Ruby("text", Timed("1.0s", "1.5s"), <<TextNode(<<"s">>)>>),
     Ruby("text", <<Attr("", "begin", "1.5s")>>, <<TextNode(<<"t">>)>>),
     Ruby("text", Timed("0.0s", "0.5s"), <<TextNode(<<" ">>)>>),
     Span(<<>>, <<Ruby("text", <<>>, <<TextNode(<<"u">>)>>)>>),
     Element("br", <<>>, <<>>)}

RubyTimings ==
    {<<>>, Timed("0.5s", "2.0s"), <<Attr("", "begin", "0.5s")>>,
     <<Attr("", "end", "2.0s")>>}

RubyWordElements ==
    {Ruby("container", t, kids) :
        t \in RubyTimings, kids \in SeqsUpTo(RubyPool, MaxRubyChildren)}
    \cup {Ruby("text", Timed("0.5s", "2.0s"), <<TextNode(<<"r">>)>>),
          Ruby("base", Timed("0.5s", "2.0s"),
               <<Ruby("text", <<>>, <<TextNode(<<"r">>)>>)>>),
          Word("0.5s", "2.0s", <<"w">>)}

DocsRuby ==
    {Doc(<<>>, <<>>, <<P(Timed("0.0s", "3.0s"), <<w>>)>>) :
        w \in RubyWordElements}

Docs == DocsBg \cup DocsTiming \cup DocsRoman \cup DocsTrans \cup DocsRuby

(* role spelling: the same document with ttm:role written role on the
   spans of the body *)
AnnotationRoles == {"x-bg", "x-translation", "x-roman"}

RECURSIVE Respelled(_)
Respelled(node) ==
    IF node.nodeType = "TEXT_NODE" THEN node
    ELSE [node EXCEPT
            !.attributes =
                [k \in 1..Len(node.attributes) |->
                    IF /\ AttrName(node.attributes[k]) = <<"ttm", "role">>
                       /\ node.attributes[k].value \in AnnotationRoles
                    THEN [node.attributes[k] EXCEPT !.prefix = ""]
                    ELSE node.attributes[k]],
            !.childNodes =
                [k \in 1..Len(node.childNodes) |-> Respelled(node.childNodes[k])]]

RespelledDoc(d) ==
    [d EXCEPT !.body = [k \in 1..Len(d.body) |-> Respelled(d.body[k])]]

SpellingPool ==
    {Word("0.0s", "1.0s", <<"a">>),
     Span(Role("x-translation"), <<TextNode(<<"t">>)>>),
     Span(Role("x-roman"), <<TextNode(<<"r">>)>>),
     Span(Role("x-bg"), <<Word("1.0s", "2.0s", <<"b">>)>>),
     Span(Role("x-bg") \o Timed("1.0s", "2.0s"),
          <<Word("1.0s", "2.0s", <<"(", "c", ")">>)>>)}

DocsSpelling ==
    {Doc(<<>>, <<>>, <<P(Timed("0.0s", "2.0s"), kids)>>) :
        kids \in SeqsUpTo(SpellingPool, MaxWords)}

(* the documents the caller goes on to parse *)
QueueOf(d) ==
    IF d \in DocsSpelling \cup {SampleDoc} THEN <<RespelledDoc(d)>> ELSE <<>>

(* documents the user goes on to edit: a word with two ruby segments, a
   word with one, and words without *)
MaxEdits == 3

DocsEditor ==
    {Doc(<<>>, <<>>, <<P(Timed("0.0s", "3.0s"), <<w, Word("2.0s", "3.0s", <<"p">>)>>)>>) :
        w \in {Ruby("container", Timed("0.5s", "2.0s"),
                    <<Ruby("base", <<>>, <<TextNode(<<"b">>)>>),
                      Ruby("text", Timed("0.5s", "1.0s"), <<TextNode(<<"y">>)>>),
                      Ruby("text", Timed("1.0s", "2.0s"), <<TextNode(<<"z">>)>>)>>),
                Ruby("container", Timed("0.5s", "2.0s"),
                    <<Ruby("base", <<>>, <<TextNode(<<"b">>)>>),
                      Ruby("text", <<>>, <<TextNode(<<"y">>)>>)>>),
                Word("0.5s", "2.0s", <<"q">>)}}

(* the operations the user performs once the documents are parsed *)
EditsOf(d) == IF d \in DocsEditor \cup {SampleDoc} THEN MaxEdits ELSE 0

-----------------------------------------------------------------------------
(* Specifications *)

InitWith(D) ==
    /\ doc \in D \cup {SampleDoc}
    /\ pc = "translations"
    /\ itunesTranslations = EmptyMap
    /\ itunesLineRomanizations = EmptyMap
    /\ itunesWordRomanizations = EmptyMap
    /\ itunesTimedTranslations = EmptyMap
    /\ metadata = <<>>
    /\ mainAgentId = "v1"
    /\ lyricLines = <<>>
    /\ stack = <<>>
    /\ lineIdx = 1
    /\ uidCount = 0
    /\ sourceOf = EmptyMap
    /\ assembled = EmptyMap
    /\ queue = QueueOf(doc)
    /\ returned = <<>>
    /\ system = defaultSystem
    /\ rendered = defaultSystem
    /\ thrown = FALSE
    /\ clock = 1
    /\ stray = FALSE
    /\ lyricLinesAtom = Null
    /\ wordAtom = Null
    /\ rubyWarningShown = FALSE
    /\ warningOpen = FALSE
    /\ edits = EditsOf(doc)

Init == InitWith(Docs)

Spec == Init /\ [][Next]_vars

InitBg == InitWith(DocsBg)

SpecBg == InitBg /\ [][Next]_vars

InitTiming == InitWith(DocsTiming)

SpecTiming == InitTiming /\ [][Next]_vars

InitRoman == InitWith(DocsRoman)

SpecRoman == InitRoman /\ [][Next]_vars

InitTrans == InitWith(DocsTrans)

SpecTrans == InitTrans /\ [][Next]_vars

InitRuby == InitWith(DocsRuby)

SpecRuby == InitRuby /\ [][Next]_vars

InitSpelling == InitWith(DocsSpelling)

SpecSpelling == InitSpelling /\ [][Next]_vars

-----------------------------------------------------------------------------
(* Vocabulary of the properties *)

RECURSIVE Walk(_, _)
Walk(node, path) ==
    IF path = <<>> THEN node ELSE Walk(node.childNodes[Head(path)], Tail(path))

(* the DOM node at a path: an index into doc.body, then child indices *)
NodeAt(path) == Walk(doc.body[Head(path)], Tail(path))

(* the element a line was built from *)
LineEl(line) == NodeAt(sourceOf[line.id])

Done == pc = "done"

IsPrefix(a, b) == Len(a) <= Len(b) /\ SubSeq(b, 1, Len(a)) = a

(* indices of the children of el the Line Builder takes for x-bg spans *)
BgChildren(el) ==
    {k \in 1..Len(el.childNodes) :
        /\ el.childNodes[k].nodeType = "ELEMENT_NODE"
        /\ el.childNodes[k].nodeName = "span"
        /\ getAttribute(el.childNodes[k], <<"ttm", "role">>) = "x-bg"}

(* a selected p element whose only x-bg span is one child *)
HasOneBg(at) ==
    /\ Cardinality(BgChildren(doc.body[at])) = 1
    /\ \A k \in BgChildren(doc.body[at]) :
            BgChildren(doc.body[at].childNodes[k]) = {}

Selected == {SelectedLines[k] : k \in 1..Len(SelectedLines)}

(* the main line of p element `at` is at index i, its background line at i + 1 *)
MainThenBg(at, i) ==
    /\ i + 1 <= Len(lyricLines)
    /\ ~lyricLines[i].isBG
    /\ sourceOf[lyricLines[i].id] = <<at>>
    /\ lyricLines[i + 1].isBG
    /\ \E k \in BgChildren(doc.body[at]) :
            sourceOf[lyricLines[i + 1].id] = <<at, k>>

(* C1: when parseLyric returns, every selected p element whose only x-bg
   span is one child span (which holds no x-bg span itself) has its main
   line at some index i and the background line built from that span at
   i + 1; and while the call for a p element is still running after its
   recursive call returned, the background line is already the last line
   of the output and the main line is not yet in it. *)
C1_MainThenBackground ==
    /\ Done => \A at \in Selected :
                  HasOneBg(at) => \E i \in 1..Len(lyricLines) : MainThenBg(at, i)
    /\ \A d \in 1..Len(stack) :
          (d = 1 /\ stack[d].haveBg /\ HasOneBg(stack[d].path[1]))
          => /\ lyricLines # <<>>
             /\ lyricLines[Len(lyricLines)].isBG
             /\ IsPrefix(stack[d].path, sourceOf[lyricLines[Len(lyricLines)].id])
             /\ \A i \in 1..Len(lyricLines) :
                    lyricLines[i].id # stack[d].line.id

(* C1 witness: a returned parse with a one-background line that is not
   the first line of the output *)
C1_Witness ==
    /\ Done
    /\ \E at \in Selected, i \in 2..Len(lyricLines) :
          HasOneBg(at) /\ MainThenBg(at, i)

(* the nearest main line before index i *)
NearestMainBefore(i) ==
    LET mains == {j \in 1..(i - 1) : ~lyricLines[j].isBG}
    IN CHOOSE j \in mains : \A j2 \in mains : j2 <= j

(* C2: in the returned lyricLines every background line is preceded by a
   main line, and the nearest main line before it is the one built from
   the p element that contains the background span. *)
C2_BackgroundFollowsItsMain ==
    Done => \A i \in 1..Len(lyricLines) :
        lyricLines[i].isBG =>
            /\ \E j \in 1..(i - 1) : ~lyricLines[j].isBG
            /\ IsPrefix(sourceOf[lyricLines[NearestMainBefore(i)].id],
                        sourceOf[lyricLines[i].id])

(* the begin and end attributes of the element of a line *)
BeginOf(line) == getAttribute(LineEl(line), <<"", "begin">>)

EndOf(line) == getAttribute(LineEl(line), <<"", "end">>)

HasExplicitTiming(line) == Truthy(BeginOf(line)) /\ Truthy(EndOf(line))

IsBlank(text) == \A k \in 1..Len(text) : IsSpace(text[k])

(* the words with non-whitespace text among ws, as a set of indices *)
Sounding(ws) == {k \in 1..Len(ws) : ~IsBlank(ws[k].word)}

(* s is the least start and e the greatest end over the sounding words of ws *)
SpansSounding(s, e, ws) ==
    /\ \E k \in Sounding(ws) : ws[k].startTime = s
    /\ \A k \in Sounding(ws) : ws[k].startTime >= s
    /\ \E k \in Sounding(ws) : ws[k].endTime = e
    /\ \A k \in Sounding(ws) : ws[k].endTime <= e

(* C3: a line whose element carries a non-empty begin and a non-empty end
   has startTime = parseTimespan(begin) and endTime = parseTimespan(end),
   whatever its words are. *)
C3_ExplicitTimingKept ==
    \A i \in 1..Len(lyricLines) :
        HasExplicitTiming(lyricLines[i]) =>
            /\ lyricLines[i].startTime = parseTimespan(BeginOf(lyricLines[i]))
            /\ lyricLines[i].endTime = parseTimespan(EndOf(lyricLines[i]))

(* C3 witness: a line with explicit timing and a sounding word that
   starts before the line and another that ends after it *)
C3_Witness ==
    \E i \in 1..Len(lyricLines) :
        /\ HasExplicitTiming(lyricLines[i])
        /\ \E k \in Sounding(lyricLines[i].words) :
              lyricLines[i].words[k].startTime < lyricLines[i].startTime
        /\ \E k \in Sounding(lyricLines[i].words) :
              lyricLines[i].words[k].endTime > lyricLines[i].endTime

(* C4: a line whose element lacks begin or end and that was assembled
   without any word of non-whitespace text has startTime = 0 and
   endTime = 0; the sentinel of the minimum is in no line of the output. *)
C4_EmptyLineTimedZero ==
    \A i \in 1..Len(lyricLines) :
        /\ lyricLines[i].startTime # POSITIVE_INFINITY
        /\ (~HasExplicitTiming(lyricLines[i])
                /\ Sounding(assembled[lyricLines[i].id]) = {})
            => lyricLines[i].startTime = 0 /\ lyricLines[i].endTime = 0

(* C5 as stated: a line whose element lacks begin or end and that has a
   word of non-whitespace text starts at the least startTime and ends at
   the greatest endTime of exactly its words of non-whitespace text. *)
C5_TimingFromOutputWords ==
    \A i \in 1..Len(lyricLines) :
        (~HasExplicitTiming(lyricLines[i])
            /\ Sounding(lyricLines[i].words) # {})
        => SpansSounding(lyricLines[i].startTime, lyricLines[i].endTime,
                         lyricLines[i].words)

(* C5 amended: the words are those the child loop assembled, before the
   parenthesis step of a background line strips or removes its first and
   last word: a line whose element lacks begin or end and that was
   assembled with a word of non-whitespace text starts at the least
   startTime and ends at the greatest endTime of exactly the assembled
   words of non-whitespace text. *)
C5_TimingFromAssembledWords ==
    \A i \in 1..Len(lyricLines) :
        (~HasExplicitTiming(lyricLines[i])
            /\ Sounding(assembled[lyricLines[i].id]) # {})
        => SpansSounding(lyricLines[i].startTime, lyricLines[i].endTime,
                         assembled[lyricLines[i].id])

(* C5 witness: a line timed from its words where a whitespace-only word
   starts earlier than every sounding word *)
C5_Witness ==
    \E i \in 1..Len(lyricLines) :
        LET ws == assembled[lyricLines[i].id]
        IN /\ ~HasExplicitTiming(lyricLines[i])
           /\ Sounding(ws) # {}
           /\ \E b \in 1..Len(ws) :
                /\ IsBlank(ws[b].word)
                /\ sourceOf[ws[b].id] # <<>>
                /\ NodeAt(sourceOf[ws[b].id]).nodeType = "ELEMENT_NODE"
                /\ ws[b].startTime < lyricLines[i].startTime

(* the key a line is resolved against: the itunes:key of its p element *)
LineKey(id) == getAttribute(doc.body[Head(sourceOf[id])], <<"itunes", "key">>)

LineIsBG(id) == Len(sourceOf[id]) > 1

LineField(id) == IF LineIsBG(id) THEN "bg" ELSE "main"

(* the word romanization list extracted for a line *)
PoolOf(id) ==
    IF Truthy(LineKey(id)) /\ LineKey(id) \in DOMAIN itunesWordRomanizations
    THEN itunesWordRomanizations[LineKey(id)][LineField(id)]
    ELSE <<>>

(* a word built by the Word Builder, not a text pseudo-word *)
SpanBuilt(w) == NodeAt(sourceOf[w.id]).nodeType = "ELEMENT_NODE"

SameTiming(a, b) == a.startTime = b.startTime /\ a.endTime = b.endTime

(* the entries of pool timed like w *)
EntriesFor(pool, w) == {k \in 1..Len(pool) : SameTiming(pool[k], w)}

(* how many span-built words of ws up to j are timed like ws[j] *)
Rank(ws, j) ==
    Cardinality({j2 \in 1..j : SpanBuilt(ws[j2]) /\ SameTiming(ws[j2], ws[j])})

NthOf(S, n) == CHOOSE x \in S : Cardinality({y \in S : y < x}) = n - 1

(* word j of ws is given an entry of pool *)
Served(ws, j, pool) ==
    SpanBuilt(ws[j]) /\ Cardinality(EntriesFor(pool, ws[j])) >= Rank(ws, j)

(* C6: in the words a call assembled, the n-th span-built word with a
   given timing has as romanWord the text of the n-th pool entry with
   that timing, and "" when the pool has fewer than n such entries; text
   pseudo-words keep ""; and when the child loop has ended the pool of
   the call has lost exactly one entry per served word. *)
C6_RomanEntryServesOneWord ==
    /\ \A id \in DOMAIN assembled :
          LET ws == assembled[id]
              pool == PoolOf(id)
          IN \A j \in 1..Len(ws) :
                ws[j].romanWord =
                    IF Served(ws, j, pool)
                    THEN pool[NthOf(EntriesFor(pool, ws[j]), Rank(ws, j))].text
                    ELSE <<>>
    /\ \A d \in 1..Len(stack) :
          stack[d].phase # "children" =>
             LET ws == assembled[stack[d].line.id]
                 pool == PoolOf(stack[d].line.id)
             IN Len(stack[d].availableRomanWords) =
                    Len(pool)
                    - Cardinality({j \in 1..Len(ws) : Served(ws, j, pool)})

(* C6 witness: two span-built words with the same timing in one line,
   a pool with exactly one entry for that timing: the first word has its
   text, the second has none *)
C6_Witness ==
    \E id \in DOMAIN assembled :
        LET ws == assembled[id]
        IN \E j1, j2 \in 1..Len(ws) :
              /\ j1 < j2
              /\ SpanBuilt(ws[j1]) /\ SpanBuilt(ws[j2])
              /\ SameTiming(ws[j1], ws[j2])
              /\ Cardinality(EntriesFor(PoolOf(id), ws[j1])) = 1
              /\ ws[j1].romanWord # <<>>
              /\ ws[j2].romanWord = <<>>

(* the span-built words with a romanWord, timed like entry e, of the
   lines whose ids are in ids: pairs of line id and word index *)
Romanized(ids, e) ==
    {x \in UNION {{<<id, j>> : j \in 1..Len(assembled[id])} : id \in ids} :
        LET w == assembled[x[1]][x[2]]
        IN SpanBuilt(w) /\ SameTiming(w, e) /\ w.romanWord # <<>>}

MainLineIds(K) ==
    {id \in DOMAIN assembled : ~LineIsBG(id) /\ LineKey(id) = K}

(* C7 as stated: over the whole parse an entry of the main list of a key
   serves at most one word, so the words with a romanWord and a given
   timing, over all main lines with that key, are no more than the
   entries with that timing. *)
C7_EntryConsumedOncePerParse ==
    Done => \A K \in DOMAIN itunesWordRomanizations :
        LET pool == itunesWordRomanizations[K].main
        IN \A k \in 1..Len(pool) :
              Cardinality(Romanized(MainLineIds(K), pool[k]))
                  <= Cardinality(EntriesFor(pool, pool[k]))

(* C7 amended: an entry serves at most one word per Line Builder call:
   within every single line the words with a romanWord and a given timing
   are no more than the entries with that timing, and every call starts
   from a copy of the whole list extracted for its key, whatever earlier
   lines with the same key were given. *)
C7_EntryConsumedOncePerCall ==
    /\ \A id \in DOMAIN assembled :
          \A k \in 1..Len(PoolOf(id)) :
              Cardinality(Romanized({id}, PoolOf(id)[k]))
                  <= Cardinality(EntriesFor(PoolOf(id), PoolOf(id)[k]))
    /\ \A d \in 1..Len(stack) :
          (stack[d].phase = "children" /\ stack[d].i = 1)
              => stack[d].availableRomanWords = PoolOf(stack[d].line.id)

(* C7 witness: two main lines with the same key, each with a word that
   was given the text of the only entry with its timing *)
C7_Witness ==
    /\ Done
    /\ \E K \in DOMAIN itunesWordRomanizations :
          \E a, b \in MainLineIds(K) :
              /\ a # b
              /\ \E k \in 1..Len(itunesWordRomanizations[K].main) :
                    LET e == itunesWordRomanizations[K].main[k]
                    IN /\ Cardinality(
                              EntriesFor(itunesWordRomanizations[K].main, e)) = 1
                       /\ Romanized({a}, e) # {}
                       /\ Romanized({b}, e) # {}

AfterExtraction == pc \in {"metadata", "lines", "done"}

(* the inner markup of the x-translation children of a line element *)
InlineTranslations(el) ==
    {innerHTML(el.childNodes[k]) : k \in
        {k \in 1..Len(el.childNodes) :
            /\ el.childNodes[k].nodeType = "ELEMENT_NODE"
            /\ el.childNodes[k].nodeName = "span"
            /\ getAttribute(el.childNodes[k], <<"ttm", "role">>)
                    = "x-translation"}}

(* C8: once the metadata is extracted no key has both a timed and a plain
   translation entry, and a line whose key has a timed entry has the
   field of that entry as translatedLyric (its own inline translation
   when that field is empty), never the text of a plain entry. *)
C8_TimedSuppressesPlain ==
    /\ AfterExtraction =>
          (DOMAIN itunesTimedTranslations) \cap (DOMAIN itunesTranslations) = {}
    /\ \A i \in 1..Len(lyricLines) :
          LET id == lyricLines[i].id
              K == LineKey(id)
          IN (Truthy(K) /\ K \in DOMAIN itunesTimedTranslations) =>
                LET timed == itunesTimedTranslations[K][LineField(id)]
                IN \/ lyricLines[i].translatedLyric = timed
                   \/ /\ timed = <<>>
                      /\ lyricLines[i].translatedLyric
                            \in InlineTranslations(LineEl(lyricLines[i]))

(* C8 witness: a key with a timed text element followed, later in the
   document, by a plain text element, and a main line with that key
   carrying the timed text *)
C8_Witness ==
    /\ Done
    /\ \E a, b \in 1..Len(doc.translationTexts) :
          LET ta == doc.translationTexts[a]
              tb == doc.translationTexts[b]
              K == getAttribute(ta, <<"", "for">>)
          IN /\ a < b
             /\ getAttribute(tb, <<"", "for">>) = K
             /\ HasSpanDescendant(ta)
             /\ ~HasSpanDescendant(tb)
             /\ LineMetadataOf(tb).main # <<>>
             /\ K \in DOMAIN itunesTimedTranslations
             /\ \E i \in 1..Len(lyricLines) :
                   /\ ~lyricLines[i].isBG
                   /\ LineKey(lyricLines[i].id) = K
                   /\ lyricLines[i].translatedLyric # <<>>
                   /\ lyricLines[i].translatedLyric = LineMetadataOf(ta).main

AllWords ==
    UNION {{lyricLines[i].words[j] : j \in 1..Len(lyricLines[i].words)} :
                i \in 1..Len(lyricLines)}

WordEl(w) == NodeAt(sourceOf[w.id])

IsRubyContainer(el) ==
    el.nodeType = "ELEMENT_NODE" /\ getAttribute(el, <<"", "ruby">>) = "container"

(* the span descendants of el with ruby="text", in document order,
   reached through span elements *)
RECURSIVE RubyTextElements(_)
RubyTextElements(el) ==
    ConcatAll([k \in 1..Len(el.childNodes) |->
        LET c == el.childNodes[k]
        IN IF c.nodeType = "ELEMENT_NODE" /\ c.nodeName = "span"
           THEN (IF getAttribute(c, <<"", "ruby">>) = "text"
                 THEN <<c>> ELSE <<>>) \o RubyTextElements(c)
           ELSE <<>>])

(* own attribute if it has one, else the container's, else 0 *)
BoundOf(own, container) ==
    IF Truthy(own) THEN parseTimespan(own)
    ELSE IF Truthy(container) THEN parseTimespan(container)
    ELSE 0

(* C9: a word built from a ruby container with begin and end is timed by
   them, and the k-th ruby="text" descendant of a container yields the
   k-th segment, which starts at its own begin if it has one, else at the
   container's, else at 0, and ends likewise. *)
C9_RubySegmentTiming ==
    \A w \in AllWords :
        IsRubyContainer(WordEl(w)) =>
            LET el == WordEl(w)
                begin == getAttribute(el, <<"", "begin">>)
                end == getAttribute(el, <<"", "end">>)
                texts == RubyTextElements(el)
                segs == IF w.ruby = <<>> THEN <<>> ELSE w.ruby[1]
            IN /\ (Truthy(begin) /\ Truthy(end)) =>
                     /\ w.startTime = parseTimespan(begin)
                     /\ w.endTime = parseTimespan(end)
               /\ Len(segs) = Len(texts)
               /\ \A k \in 1..Len(texts) :
                     /\ segs[k].startTime =
                           BoundOf(getAttribute(texts[k], <<"", "begin">>), begin)
                     /\ segs[k].endTime =
                           BoundOf(getAttribute(texts[k], <<"", "end">>), end)

(* C9 witness: a container with begin and end, one segment with its own
   begin and one that takes the container's *)
C9_Witness ==
    \E w \in AllWords :
        /\ IsRubyContainer(WordEl(w))
        /\ Truthy(getAttribute(WordEl(w), <<"", "begin">>))
        /\ Truthy(getAttribute(WordEl(w), <<"", "end">>))
        /\ \E a, b \in 1..Len(RubyTextElements(WordEl(w))) :
              /\ Truthy(getAttribute(RubyTextElements(WordEl(w))[a],
                                     <<"", "begin">>))
              /\ ~Truthy(getAttribute(RubyTextElements(WordEl(w))[b],
                                      <<"", "begin">>))
              /\ w.ruby[1][a].startTime # w.startTime
              /\ w.ruby[1][b].startTime = w.startTime

(* the children of a line element that are ruby containers and no role spans *)
ContainerChildren(el) ==
    {k \in 1..Len(el.childNodes) :
        /\ IsRubyContainer(el.childNodes[k])
        /\ ~(el.childNodes[k].nodeName = "span"
               /\ Truthy(getAttribute(el.childNodes[k], <<"ttm", "role">>)))}

(* C10: the ruby of a word is absent or a non-empty sequence; a word from
   a ruby container has one segment per ruby="text" descendant, in
   document order, and none has ruby absent; a word from any other node
   has ruby absent; and every ruby container among the children of a
   line yields a word of that line. *)
C10_RubyAbsentOrNonEmpty ==
    /\ \A w \in AllWords :
          /\ w.ruby = <<>> \/ Len(w.ruby[1]) > 0
          /\ IsRubyContainer(WordEl(w)) =>
                LET texts == RubyTextElements(WordEl(w))
                IN IF texts = <<>> THEN w.ruby = <<>>
                   ELSE /\ w.ruby # <<>>
                        /\ Len(w.ruby[1]) = Len(texts)
                        /\ \A k \in 1..Len(texts) :
                              w.ruby[1][k].word = textContent(texts[k])
          /\ ~IsRubyContainer(WordEl(w)) => w.ruby = <<>>
    /\ \A i \in 1..Len(lyricLines) :
          \A k \in ContainerChildren(LineEl(lyricLines[i])) :
              \E j \in 1..Len(lyricLines[i].words) :
                  sourceOf[lyricLines[i].words[j].id]
                      = Append(sourceOf[lyricLines[i].id], k)

(* C10 witness: a ruby container without any ruby="text" descendant and
   without begin and end has yielded a word, whose ruby is absent *)
C10_Witness ==
    \E w \in AllWords :
        /\ IsRubyContainer(WordEl(w))
        /\ RubyTextElements(WordEl(w)) = <<>>
        /\ WordEl(w).childNodes # <<>>
        /\ ~hasAttribute(WordEl(w), <<"", "begin">>)
        /\ w.ruby = <<>>

-----------------------------------------------------------------------------
(* Word spans without timing *)

UntimedPool ==
    {Word("0.5s", "1.0s", <<"a">>),
     TextNode(<<"c">>),
     Span(<<>>, <<TextNode(<<"g">>)>>),
     Span(<<Attr("", "begin", "0.5s")>>, <<TextNode(<<"h">>)>>),
     Span(<<Attr("", "end", "1.0s")>>, <<TextNode(<<"i">>)>>),
     Span(Timed("", "1.0s"), <<TextNode(<<"j">>)>>),
     Bg(<<>>, <<Span(<<>>, <<TextNode(<<"k">>)>>),
                Word("0.5s", "1.0s", <<"d">>)>>)}

(* a pool with an entry timed 0,0 for the main line and for the
   background line *)
UntimedRomanization ==
    TextFor("L1", <<Word("0.0s", "0.0s", <<"q">>),
                    Word("0.5s", "1.0s", <<"x">>),
                    Bg(<<>>, <<Word("0.0s", "0.0s", <<"v">>),
                               Word("0.5s", "1.0s", <<"w">>)>>)>>)

DocsUntimed ==
    {Doc(<<>>, <<UntimedRomanization>>,
         <<P(Timed("0.0s", "2.0s") \o Key("L1"), kids)>>) :
        kids \in SeqsUpTo(UntimedPool, MaxWords)}

InitUntimed == InitWith(DocsUntimed)

SpecUntimed == InitUntimed /\ [][Next]_vars

(* an element the Line Builder hands to the Word Builder *)
IsWordElement(n) ==
    /\ n.nodeType = "ELEMENT_NODE"
    /\ ~(n.nodeName = "span" /\ Truthy(getAttribute(n, <<"ttm", "role">>)))

(* a word span that is no ruby container and lacks begin or end *)
IsUntimedSpan(n) ==
    /\ IsWordElement(n)
    /\ ~IsRubyContainer(n)
    /\ \/ ~Truthy(getAttribute(n, <<"", "begin">>))
       \/ ~Truthy(getAttribute(n, <<"", "end">>))

(* the children of a line element that become words *)
WordChildren(el) ==
    {k \in 1..Len(el.childNodes) :
        \/ el.childNodes[k].nodeType = "TEXT_NODE"
        \/ IsWordElement(el.childNodes[k]) /\ ~IsUntimedSpan(el.childNodes[k])}

(* the words of a line are those of its word children, in document order *)
UntimedSpansAbsent ==
    \A i \in 1..Len(lyricLines) :
        LET line == lyricLines[i]
            ws == assembled[line.id]
            kept == WordChildren(LineEl(line))
        IN /\ Len(ws) = Cardinality(kept)
           /\ \A j \in 1..Len(ws) :
                 sourceOf[ws[j].id] = Append(sourceOf[line.id], NthOf(kept, j))
           /\ \A j \in 1..Len(line.words) : ~IsUntimedSpan(WordEl(line.words[j]))

(* the step of the child loop over an untimed span changes neither the
   words nor the romanization pool of the call *)
UntimedSpanStep ==
    (InLoop /\ IsUntimedSpan(Child)) =>
        /\ Len(stack') = Len(stack)
        /\ stack'[Len(stack)].line = Top.line
        /\ stack'[Len(stack)].availableRomanWords = Top.availableRomanWords
        /\ stack'[Len(stack)].i = Top.i + 1
        /\ pc' = pc
        /\ lyricLines' = lyricLines

(* C11: a child span that is no ruby container and lacks begin or end
   yields no word.  The words of every line are those of its other word
   children, in document order; the step over such a span leaves the
   words and the romanization pool of the call as they were; and the
   parse goes on (to its return) as for any other child. *)
C11_UntimedSpanDropped == [](UntimedSpansAbsent) /\ [][UntimedSpanStep]_vars

(* C11 witness: parseLyric has returned a line whose element has an
   untimed span before a timed word, with a pool entry timed 0,0 *)
C11_Witness ==
    /\ Done
    /\ \E i \in 1..Len(lyricLines) :
          LET el == LineEl(lyricLines[i])
          IN /\ \E k \in 1..Len(el.childNodes) :
                    /\ IsUntimedSpan(el.childNodes[k])
                    /\ \E j \in 1..Len(lyricLines[i].words) :
                          sourceOf[lyricLines[i].words[j].id]
                              = Append(sourceOf[lyricLines[i].id], k + 1)
             /\ \E e \in 1..Len(PoolOf(lyricLines[i].id)) :
                    /\ PoolOf(lyricLines[i].id)[e].startTime = 0
                    /\ PoolOf(lyricLines[i].id)[e].endTime = 0

-----------------------------------------------------------------------------
(* Malformed input: what DOMParser.parseFromString returns for text that
   is no well-formed XML.  The document holds a parsererror element and,
   depending on the platform, nothing else or the part read before the
   error. *)

ReadableLines ==
    {P(Timed("0.0s", "1.0s"), <<Word("0.0s", "1.0s", <<"a">>)>>),
     P(Timed("1.0s", "2.0s"), <<Word("1.0s", "2.0s", <<"b">>), BgA>>)}

DocsMalformed ==
    {[Doc(<<>>, <<>>, body) EXCEPT !.parsererror = TRUE] :
        body \in SeqsUpTo(ReadableLines, MaxWords)}

InitMalformed == InitWith(DocsMalformed)

SpecMalformed == InitMalformed /\ [][Next]_vars

(* C12: when the document parser reported a parse error parseLyric does
   not return a TTMLLyric. *)
C12_MalformedFailsWhole == doc.parsererror => ~Done

-----------------------------------------------------------------------------
(* Explicit timing in any order *)

ClockPool == {"0.5s", "1.0s", "2.0s"}

ExplicitKids ==
    {Word("0.5s", "1.0s", <<"a">>)}
    \cup {Bg(Timed(b, e), <<Word("1.0s", "2.0s", <<"b">>)>>) :
            b \in ClockPool, e \in ClockPool}

DocsExplicit ==
    {Doc(<<>>, <<>>, <<P(Timed(b, e), kids)>>) :
        b \in ClockPool, e \in ClockPool,
        kids \in SeqsUpTo(ExplicitKids, MaxTail)}

InitExplicit == InitWith(DocsExplicit)

SpecExplicit == InitExplicit /\ [][Next]_vars

(* C13: every output line whose element has begin and end, so that its
   startTime and endTime are the decoded attributes, has
   endTime >= startTime. *)
C13_ExplicitEndNotBeforeStart ==
    \A i \in 1..Len(lyricLines) :
        HasExplicitTiming(lyricLines[i]) =>
            lyricLines[i].endTime >= lyricLines[i].startTime

-----------------------------------------------------------------------------
(* Parentheses of background lines *)

ParenPool ==
    {Word("0.5s", "1.0s", <<"(">>),
     Word("0.5s", "1.0s", <<")">>),
     Word("0.5s", "1.0s", <<"(", ")">>),
     Word("0.5s", "1.0s", <<"(", "a", ")">>),
     Word("0.5s", "1.0s", <<"FW(", "a">>),
     Word("1.0s", "2.0s", <<"a", "FW)">>),
     Word("1.0s", "2.0s", <<"(", "(", "a">>),
     Word("1.0s", "2.0s", <<"b", "(">>),
     TextNode(<<")">>)}

DocsParen ==
    UNION {{Doc(<<>>, <<>>, <<P(Timed("0.0s", "2.0s"), kids)>>),
            Doc(<<>>, <<>>, <<P(Timed("0.0s", "2.0s"), <<Bg(<<>>, kids)>>)>>)} :
                kids \in SeqsUpTo(ParenPool, MaxWords)}

InitParen == InitWith(DocsParen)

SpecParen == InitParen /\ [][Next]_vars

OpenParens == {"(", "FW("}

CloseParens == {")", "FW)"}

(* ws without the opening parenthesis that starts its first word, and
   without that word if nothing else was in it *)
OpeningRemoved(ws) ==
    IF ws = <<>> \/ ws[1].word = <<>> THEN ws
    ELSE IF ws[1].word[1] \notin OpenParens THEN ws
    ELSE IF Len(ws[1].word) = 1 THEN SubSeq(ws, 2, Len(ws))
    ELSE [k \in 1..Len(ws) |->
            IF k = 1
            THEN [ws[1] EXCEPT !.word = SubSeq(ws[1].word, 2, Len(ws[1].word))]
            ELSE ws[k]]

(* the same for the closing parenthesis that ends the last word *)
ClosingRemoved(ws) ==
    LET n == Len(ws)
    IN IF ws = <<>> \/ ws[n].word = <<>> THEN ws
       ELSE IF ws[n].word[Len(ws[n].word)] \notin CloseParens THEN ws
       ELSE IF Len(ws[n].word) = 1 THEN SubSeq(ws, 1, n - 1)
       ELSE [k \in 1..n |->
               IF k = n
               THEN [ws[n] EXCEPT
                        !.word = SubSeq(ws[n].word, 1, Len(ws[n].word) - 1)]
               ELSE ws[k]]

(* C14: the words of a background line are its assembled words with the
   opening parenthesis of the first word removed (and the word with it
   when nothing else was in it), then the closing parenthesis of the last
   word of what is left removed likewise; the words of a main line are
   its assembled words. *)
C14_BackgroundParentheses ==
    \A i \in 1..Len(lyricLines) :
        LET line == lyricLines[i]
            ws == assembled[line.id]
        IN IF line.isBG
           THEN line.words = ClosingRemoved(OpeningRemoved(ws))
           ELSE line.words = ws

(* C14 witness: a background line whose first assembled word was a lone
   opening parenthesis, now removed, and whose last word lost its
   closing parenthesis and stayed *)
C14_Witness ==
    \E i \in 1..Len(lyricLines) :
        LET line == lyricLines[i]
            ws == assembled[line.id]
        IN /\ line.isBG
           /\ Len(ws) = 2
           /\ ws[1].word = <<"(">>
           /\ ws[2].word = <<"a", "FW)">>
           /\ Len(line.words) = 1
           /\ line.words[1].word = <<"a">>
           /\ line.words[1].id = ws[2].id

-----------------------------------------------------------------------------
(* Agents and duet lines *)

Agent(type, id) ==
    Element("ttm:agent", <<Attr("", "type", type), Attr("xml", "id", id)>>, <<>>)

AgentLists ==
    {<<>>, <<Agent("person", "v2")>>,
     <<Agent("group", "v3"), Agent("person", "v1"), Agent("person", "v2")>>}

AgentAttrs ==
    {<<>>, <<Attr("ttm", "agent", "v1")>>, <<Attr("ttm", "agent", "v2")>>,
     <<Attr("ttm", "agent", "")>>, <<Attr("", "agent", "v2")>>}

DuetBackgrounds ==
    {Bg(a, <<Word("1.0s", "2.0s", <<"b">>)>> \o inner) :
        a \in AgentAttrs,
        inner \in {<<>>, <<Bg(<<Attr("ttm", "agent", "v1")>>,
                              <<Word("1.0s", "2.0s", <<"c">>)>>)>>}}

DocsDuet ==
    {[Doc(<<>>, <<>>,
          <<P(Timed("0.0s", "2.0s") \o a,
              <<Word("0.0s", "1.0s", <<"a">>)>> \o bg)>>)
        EXCEPT !.agents = agents] :
        agents \in AgentLists, a \in AgentAttrs,
        bg \in SeqsUpTo(DuetBackgrounds, MaxTail)}

InitDuet == InitWith(DocsDuet)

SpecDuet == InitDuet /\ [][Next]_vars

(* the p element a line, main or background, comes from *)
MainElementOf(line) == doc.body[Head(sourceOf[line.id])]

(* el names an agent other than the primary one *)
NamesOtherAgent(el) ==
    /\ Truthy(getAttribute(el, <<"ttm", "agent">>))
    /\ getAttribute(el, <<"ttm", "agent">>) # mainAgentId

(* C15: a main line is a duet line exactly when its p element has a
   ttm:agent naming an agent other than the primary one; a background
   line is a duet line exactly when the main line of the p element that
   contains its span is one, whatever ttm:agent the span itself has. *)
C15_DuetFromMainAgent ==
    /\ \A i \in 1..Len(lyricLines) :
          lyricLines[i].isDuet = NamesOtherAgent(MainElementOf(lyricLines[i]))
    /\ \A i, j \in 1..Len(lyricLines) :
          (/\ lyricLines[i].isBG
           /\ ~lyricLines[j].isBG
           /\ sourceOf[lyricLines[j].id] = <<Head(sourceOf[lyricLines[i].id])>>)
             => lyricLines[i].isDuet = lyricLines[j].isDuet

(* C15 witness: a duet main line and its background line, a duet line
   too although its span names the primary agent *)
C15_Witness ==
    /\ Done
    /\ \E i, j \in 1..Len(lyricLines) :
          /\ lyricLines[i].isBG
          /\ ~lyricLines[j].isBG
          /\ sourceOf[lyricLines[j].id] = <<Head(sourceOf[lyricLines[i].id])>>
          /\ lyricLines[j].isDuet
          /\ lyricLines[i].isDuet
          /\ getAttribute(LineEl(lyricLines[i]), <<"ttm", "agent">>) = mainAgentId

-----------------------------------------------------------------------------
(* Metadata keys of main and background lines *)

BgText(t) == Span(Role("x-bg"), <<TextNode(t)>>)

KeyTranslations ==
    {TextFor("L1", <<TextNode(<<"m">>), BgText(<<"(", "g", ")">>)>>),
     TextFor("L1", <<TextNode(<<"n">>)>>),
     TextFor("L1", <<TextNode(<<"o">>), Span(<<>>, <<TextNode(<<"s">>)>>),
                     BgText(<<"h">>)>>),
     TextFor("L2", <<TextNode(<<"x">>), BgText(<<"(", "y", ")">>)>>)}

KeyTransliterations ==
    {<<>>,
     <<TextFor("L1", <<TextNode(<<"r">>)>>)>>,
     <<TextFor("L1", <<TextNode(<<"r">>), BgText(<<"(", "q", ")">>)>>),
       TextFor("L2", <<TextNode(<<"u">>), BgText(<<"w">>)>>)>>}

KeyAttrs == {<<>>, Key("L1"), Key("L2")}

KeyLines ==
    {P(Timed("0.0s", "2.0s") \o pk,
       <<Word("0.0s", "1.0s", <<"a">>),
         Bg(bk, <<Word("1.0s", "2.0s", <<"b">>),
                  Bg(Key("L2"), <<Word("1.0s", "2.0s", <<"c">>)>>)>>)>>) :
        pk \in KeyAttrs, bk \in KeyAttrs}

DocsKey ==
    {Doc(tr, tl, <<line>>) :
        tr \in SeqsUpTo(KeyTranslations, MaxTexts),
        tl \in KeyTransliterations,
        line \in KeyLines}

InitKey == InitWith(DocsKey)

SpecKey == InitKey /\ [][Next]_vars

(* the inner markup of the x-roman children of a line element *)
InlineRomanizations(el) ==
    {innerHTML(el.childNodes[k]) : k \in
        {k \in 1..Len(el.childNodes) :
            /\ el.childNodes[k].nodeType = "ELEMENT_NODE"
            /\ el.childNodes[k].nodeName = "span"
            /\ getAttribute(el.childNodes[k], <<"ttm", "role">>) = "x-roman"}}

(* what the translation maps hold for key K and a field, timed first *)
MetaTranslation(K, field) ==
    IF ~Truthy(K) THEN <<>>
    ELSE IF K \in DOMAIN itunesTimedTranslations
    THEN itunesTimedTranslations[K][field]
    ELSE IF K \in DOMAIN itunesTranslations
    THEN itunesTranslations[K][field]
    ELSE <<>>

MetaRomanization(K, field) ==
    IF Truthy(K) /\ K \in DOMAIN itunesLineRomanizations
    THEN itunesLineRomanizations[K][field]
    ELSE <<>>

(* v is the metadata text when there is one, else nothing or inline text *)
FromMetadataOr(v, meta, inline) ==
    IF meta # <<>> THEN v = meta ELSE v \in {<<>>} \cup inline

(* C16: every line, main or background at any depth, is resolved against
   the itunes:key of its p element: a main line has the main field and a
   background line the bg field of the entries for that key (when the
   field is empty, nothing or its own inline span), and an itunes:key on
   the background span plays no part. *)
C16_BackgroundUsesParentKey ==
    \A i \in 1..Len(lyricLines) :
        LET line == lyricLines[i]
            K == LineKey(line.id)
            field == IF line.isBG THEN "bg" ELSE "main"
        IN /\ FromMetadataOr(line.translatedLyric, MetaTranslation(K, field),
                             InlineTranslations(LineEl(line)))
           /\ FromMetadataOr(line.romanLyric, MetaRomanization(K, field),
                             InlineRomanizations(LineEl(line)))

(* C16 witness: a background line whose span has its own itunes:key, with
   entries for that key too, has the bg texts of its p element's key
   while the main line has the main texts *)
C16_Witness ==
    /\ Done
    /\ \E i, j \in 1..Len(lyricLines) :
          LET bg == lyricLines[i]
              main == lyricLines[j]
              K == LineKey(main.id)
              own == getAttribute(LineEl(bg), <<"itunes", "key">>)
          IN /\ bg.isBG /\ ~main.isBG
             /\ Truthy(K) /\ Truthy(own) /\ own # K
             /\ MetaTranslation(own, "bg") # <<>>
             /\ MetaRomanization(own, "bg") # <<>>
             /\ MetaTranslation(K, "bg") # <<>>
             /\ MetaRomanization(K, "bg") # <<>>
             /\ bg.translatedLyric = MetaTranslation(K, "bg")
             /\ bg.translatedLyric # MetaTranslation(own, "bg")
             /\ bg.translatedLyric # MetaTranslation(K, "main")
             /\ bg.romanLyric = MetaRomanization(K, "bg")
             /\ bg.romanLyric # MetaRomanization(own, "bg")
             /\ main.translatedLyric = MetaTranslation(K, "main")
             /\ main.romanLyric = MetaRomanization(K, "main")

-----------------------------------------------------------------------------
(* Inline translation and romanization spans *)

Inline(role, t) == Span(Role(role), IF t = <<>> THEN <<>> ELSE <<TextNode(t)>>)

InlinePool ==
    {Word("0.0s", "1.0s", <<"a">>),
     Inline("x-translation", <<"t">>),
     Inline("x-translation", <<"u">>),
     Inline("x-translation", <<>>),
     Inline("x-roman", <<"r">>),
     Bg(<<>>, <<Word("1.0s", "2.0s", <<"b">>),
                Inline("x-translation", <<"v">>),
                Inline("x-roman", <<"s">>)>>)}

InlineTranslationTexts ==
    {<<>>,
     <<TextFor("L1", <<TextNode(<<"m">>)>>)>>,
     <<TextFor("L1", <<BgText(<<"(", "g", ")">>)>>)>>,
     <<TextFor("L1", <<TextNode(<<"m">>), Span(<<>>, <<TextNode(<<"s">>)>>),
                       BgText(<<"g">>)>>)>>}

InlineTransliterationTexts ==
    {<<>>,
     <<TextFor("L1", <<TextNode(<<"n">>)>>)>>,
     <<TextFor("L1", <<TextNode(<<"n">>), BgText(<<"h">>)>>)>>}

DocsInline ==
    {Doc(tr, tl, <<P(Timed("0.0s", "2.0s") \o Key("L1"), kids)>>) :
        tr \in InlineTranslationTexts,
        tl \in InlineTransliterationTexts,
        kids \in SeqsUpTo(InlinePool, MaxWords)}

InitInline == InitWith(DocsInline)

SpecInline == InitInline /\ [][Next]_vars

(* the children of el that are spans with the given ttm:role *)
InlineChildren(el, role) ==
    {k \in 1..Len(el.childNodes) :
        /\ el.childNodes[k].nodeType = "ELEMENT_NODE"
        /\ el.childNodes[k].nodeName = "span"
        /\ getAttribute(el.childNodes[k], <<"ttm", "role">>) = role}

(* the inner markup of the first of them that has any, else nothing *)
FirstInline(el, role) ==
    LET some == {k \in InlineChildren(el, role) :
                    innerHTML(el.childNodes[k]) # <<>>}
    IN IF some = {} THEN <<>> ELSE innerHTML(el.childNodes[MinOf(some)])

(* C17: when the metadata supplies a non-empty translation (romanization)
   for a line, the line has that text whatever inline spans it contains;
   otherwise it has the inner markup of its first x-translation (x-roman)
   child span that has any. *)
C17_InlineOnlyWithoutMetadata ==
    \A i \in 1..Len(lyricLines) :
        LET line == lyricLines[i]
            K == LineKey(line.id)
            field == IF line.isBG THEN "bg" ELSE "main"
            el == LineEl(line)
        IN /\ line.translatedLyric =
                 IF MetaTranslation(K, field) # <<>>
                 THEN MetaTranslation(K, field)
                 ELSE FirstInline(el, "x-translation")
           /\ line.romanLyric =
                 IF MetaRomanization(K, field) # <<>>
                 THEN MetaRomanization(K, field)
                 ELSE FirstInline(el, "x-roman")

(* C17 witness: a main line with metadata translation and an inline
   x-translation span keeps the metadata text, while its background line,
   without metadata text, takes its inline spans *)
C17_Witness ==
    /\ Done
    /\ \E i, j \in 1..Len(lyricLines) :
          LET main == lyricLines[i]
              bg == lyricLines[j]
          IN /\ ~main.isBG /\ bg.isBG
             /\ InlineChildren(LineEl(main), "x-translation") # {}
             /\ MetaTranslation(LineKey(main.id), "main") # <<>>
             /\ main.translatedLyric = MetaTranslation(LineKey(main.id), "main")
             /\ main.translatedLyric # FirstInline(LineEl(main), "x-translation")
             /\ MetaTranslation(LineKey(bg.id), "bg") = <<>>
             /\ bg.translatedLyric = <<"v">>
             /\ MetaRomanization(LineKey(bg.id), "bg") # <<>>
             /\ bg.romanLyric = MetaRomanization(LineKey(bg.id), "bg")
             /\ bg.romanLyric # <<"s">>

-----------------------------------------------------------------------------
(* C18: a word built from a bare text node with non-whitespace text has
   the startTime and endTime of the output line it belongs to, whether
   the line has begin and end or takes its timing from its words, and a
   word built from a whitespace-only text node is timed 0,0. *)
C18_TextWordTimedAsLine ==
    \A i \in 1..Len(lyricLines) :
        \A j \in 1..Len(lyricLines[i].words) :
            LET w == lyricLines[i].words[j]
            IN WordEl(w).nodeType = "TEXT_NODE" =>
                  IF IsBlank(WordEl(w).data)
                  THEN w.startTime = 0 /\ w.endTime = 0
                  ELSE /\ w.startTime = lyricLines[i].startTime
                       /\ w.endTime = lyricLines[i].endTime

-----------------------------------------------------------------------------
(* Spelling of the role attribute *)

WithoutWordId(w) ==
    [word |-> w.word, startTime |-> w.startTime, endTime |-> w.endTime,
     obscene |-> w.obscene, emptyBeat |-> w.emptyBeat,
     romanWord |-> w.romanWord, ruby |-> w.ruby]

WithoutIds(lines) ==
    [i \in 1..Len(lines) |->
        [words |-> [j \in 1..Len(lines[i].words) |->
                        WithoutWordId(lines[i].words[j])],
         translatedLyric |-> lines[i].translatedLyric,
         romanLyric |-> lines[i].romanLyric,
         isBG |-> lines[i].isBG,
         isDuet |-> lines[i].isDuet,
         startTime |-> lines[i].startTime,
         endTime |-> lines[i].endTime,
         ignoreSync |-> lines[i].ignoreSync]]

(* C19: a document and the same document with the role of its x-bg,
   x-translation and x-roman spans written unprefixed yield the same
   lyricLines, up to the generated ids. *)
C19_RoleSpellingIrrelevant ==
    Len(returned) = 2 =>
        WithoutIds(returned[1].lyricLines) = WithoutIds(returned[2].lyricLines)

-----------------------------------------------------------------------------
(* Metadata entries *)

MaxMetas == 2

AmllMeta(k, v) ==
    Element("amll:meta", <<Attr("", "key", k), Attr("", "value", v)>>, <<>>)

MetaPool ==
    {AmllMeta("album", "A"), AmllMeta("album", "B"), AmllMeta("artist", "C"),
     AmllMeta("songwriter", "S"), AmllMeta("album", ""),
     Element("meta", <<Attr("", "key", "album"), Attr("", "value", "D")>>, <<>>)}

Songwriter(t) == Element("songwriter", <<>>, <<TextNode(t)>>)

SongwriterLists ==
    {<<>>, <<Songwriter(<<"x">>)>>, <<Songwriter(<<" ">>)>>,
     <<Songwriter(<<"x">>), Songwriter(<<" ", "y">>)>>}

DocsMeta ==
    {[Doc(<<>>, <<>>, <<P(Timed("0.0s", "1.0s"), <<Word("0.0s", "1.0s", <<"a">>)>>)>>)
        EXCEPT !.metas = metas, !.songwriters = sw] :
        metas \in SeqsUpTo(MetaPool, MaxMetas), sw \in SongwriterLists}

InitMeta == InitWith(DocsMeta)

SpecMeta == InitMeta /\ [][Next]_vars

MetadataExtracted == pc \in {"lines", "done"}

(* the values of the amll:meta elements with key k, in document order *)
AmllValues(k) ==
    LET with == SelectSeq(doc.metas, LAMBDA e :
                    /\ e.nodeName = "amll:meta"
                    /\ getAttribute(e, <<"", "key">>) = k
                    /\ Truthy(getAttribute(e, <<"", "value">>)))
    IN [i \in 1..Len(with) |-> getAttribute(with[i], <<"", "value">>)]

(* the names of the songwriter elements, in document order *)
SongwriterNames ==
    LET names == [i \in 1..Len(doc.songwriters) |->
                    Trim(textContent(doc.songwriters[i]))]
    IN SelectSeq(names, LAMBDA n : n # <<>>)

(* C20: the metadata holds no two entries with the same key; an entry
   with a key other than songwriter holds the values of the amll:meta
   elements with that key in document order; and when there are
   songwriter names, the entry with key songwriter holds them all. *)
C20_MetadataKeysUnique ==
    MetadataExtracted =>
        /\ \A i, j \in 1..Len(metadata) :
              metadata[i].key = metadata[j].key => i = j
        /\ \A i \in 1..Len(metadata) :
              metadata[i].key # "songwriter" =>
                  metadata[i].value = AmllValues(metadata[i].key)
        /\ SongwriterNames # <<>> =>
              \E i \in 1..Len(metadata) :
                  /\ metadata[i].key = "songwriter"
                  /\ \A n \in 1..Len(SongwriterNames) :
                        \E v \in 1..Len(metadata[i].value) :
                            metadata[i].value[v] = SongwriterNames[n]

-----------------------------------------------------------------------------
(* Text of a ruby container *)

(* the text nodes of el in document order, reached through span elements,
   leaving out the spans with a role in skipRoles and, when rubyText is
   FALSE, the spans with ruby="text" *)
RECURSIVE VisibleText(_, _, _)
VisibleText(el, skipRoles, rubyText) ==
    ConcatAll([k \in 1..Len(el.childNodes) |->
        LET c == el.childNodes[k]
        IN IF c.nodeType = "TEXT_NODE" THEN c.data
           ELSE IF c.nodeName # "span" THEN <<>>
           ELSE IF getAttr(c, "role") \in skipRoles THEN <<>>
           ELSE IF ~rubyText /\ getAttr(c, "ruby") = "text" THEN <<>>
           ELSE VisibleText(c, skipRoles, rubyText)])

(* the direct child spans of el with ruby="base" *)
BaseChildren(el) ==
    {k \in 1..Len(el.childNodes) :
        /\ el.childNodes[k].nodeType = "ELEMENT_NODE"
        /\ el.childNodes[k].nodeName = "span"
        /\ getAttr(el.childNodes[k], "ruby") = "base"}

(* C21: the text of a word built from a ruby container is the flattened
   inner text of its first direct ruby="base" child when it has one, and
   otherwise the container's flattened inner text without the text of its
   ruby="text" descendants; x-translation and x-roman spans are left out
   in both cases. *)
C21_RubyContainerText ==
    \A w \in AllWords :
        IsRubyContainer(WordEl(w)) =>
            LET el == WordEl(w)
            IN IF BaseChildren(el) # {}
               THEN w.word = VisibleText(el.childNodes[MinOf(BaseChildren(el))],
                                         SkipRoles, TRUE)
               ELSE w.word = VisibleText(el, SkipRoles, FALSE)

-----------------------------------------------------------------------------
(* The primary agent *)

MaxAgents == 2

AgentPool ==
    {Agent("person", "v2"), Agent("person", "v3"), Agent("group", "v4"),
     Agent("person", ""),
     Element("ttm:agent", <<Attr("", "type", "person")>>, <<>>)}

DocsAgent ==
    {[Doc(<<>>, <<>>,
          <<P(Timed("0.0s", "1.0s") \o <<Attr("ttm", "agent", "v2")>>,
              <<Word("0.0s", "1.0s", <<"a">>)>>)>>)
        EXCEPT !.agents = agents] :
        agents \in SeqsUpTo(AgentPool, MaxAgents)}

InitAgent == InitWith(DocsAgent)

SpecAgent == InitAgent /\ [][Next]_vars

(* the ttm:agent elements of type person, as indices in document order *)
PersonAgents ==
    {i \in 1..Len(doc.agents) :
        getAttribute(doc.agents[i], <<"", "type">>) = "person"}

(* those of them that have a non-empty xml:id *)
IdentifiedPersonAgents ==
    {i \in PersonAgents : Truthy(getAttribute(doc.agents[i], <<"xml", "id">>))}

(* C22 as stated: the main agent id is the xml:id of the first ttm:agent
   of type person and v1 when there is none; a later person agent never
   supplies it. *)
C22_FirstPersonAgent ==
    MetadataExtracted =>
        mainAgentId =
            IF PersonAgents = {} THEN "v1"
            ELSE getAttribute(doc.agents[MinOf(PersonAgents)], <<"xml", "id">>)

(* C22 amended: the main agent id is the xml:id of the first ttm:agent of
   type person that has a non-empty xml:id, and v1 when there is none;
   person agents after that one never supply it. *)
C22_FirstIdentifiedPersonAgent ==
    MetadataExtracted =>
        mainAgentId =
            IF IdentifiedPersonAgents = {} THEN "v1"
            ELSE getAttribute(doc.agents[MinOf(IdentifiedPersonAgents)],
                              <<"xml", "id">>)

(* C22 witness: two person agents with different ids, the first of which
   is the main agent, so that the line of the other agent is a duet line *)
C22_Witness ==
    /\ Done
    /\ Cardinality(IdentifiedPersonAgents) = 2
    /\ \E i, j \in IdentifiedPersonAgents :
          /\ i < j
          /\ getAttribute(doc.agents[i], <<"xml", "id">>) = mainAgentId
          /\ getAttribute(doc.agents[j], <<"xml", "id">>) # mainAgentId
          /\ \E k \in 1..Len(lyricLines) :
                /\ getAttribute(LineEl(lyricLines[k]), <<"ttm", "agent">>)
                      = getAttribute(doc.agents[j], <<"xml", "id">>)
                /\ lyricLines[k].isDuet

-----------------------------------------------------------------------------
(* Flattening of span trees *)

FlattenPool ==
    {TextNode(<<"a">>),
     TextNode(<<"b">>),
     Span(Role("x-roman"), <<TextNode(<<"r">>)>>),
     Span(<<>>, <<TextNode(<<"c">>),
                  Span(Role("x-translation"),
                       <<TextNode(<<"t">>), Span(<<>>, <<TextNode(<<"u">>)>>),
                         TextNode(<<"v">>)>>),
                  TextNode(<<"d">>)>>),
     Span(Role("x-bg"), <<TextNode(<<"g">>)>>),
     Element("em", <<>>, <<TextNode(<<"z">>)>>)}

FlattenWordElements ==
    {Span(Timed("0.0s", "1.0s") \o r, kids) :
        r \in {<<>>, <<Attr("", "role", "x-roman")>>},
        kids \in SeqsUpTo(FlattenPool, MaxChildren)}

DocsFlatten ==
    {Doc(<<>>, <<>>, <<P(Timed("0.0s", "1.0s"), <<w>>)>>) :
        w \in FlattenWordElements}

InitFlatten == InitWith(DocsFlatten)

SpecFlatten == InitFlatten /\ [][Next]_vars

ExclusionSets == SUBSET {"x-translation", "x-roman", "x-bg"}

(* a span node and the span nodes below it *)
RECURSIVE SpanNodes(_)
SpanNodes(n) ==
    {n} \cup UNION {SpanNodes(n.children[k]) : k \in 1..Len(n.children)}

(* the text an element contributes: nothing when its role is excluded,
   else its text nodes and the contributions of its child spans, in
   document order *)
RECURSIVE ContributedText(_, _)
ContributedText(el, skipRoles) ==
    IF Truthy(getAttr(el, "role")) /\ getAttr(el, "role") \in skipRoles
    THEN <<>>
    ELSE ConcatAll([k \in 1..Len(el.childNodes) |->
            LET c == el.childNodes[k]
            IN IF c.nodeType = "TEXT_NODE" THEN c.data
               ELSE IF c.nodeName = "span" THEN ContributedText(c, skipRoles)
               ELSE <<>>])

(* the words of the lines as they were when the child loop ended *)
AssembledWords ==
    UNION {{assembled[id][j] : j \in 1..Len(assembled[id])} :
                id \in DOMAIN assembled}

(* C23: for every span node n of a word element and every exclusion
   set, flattenSpanText(n) is flattenSpanInnerText(n) followed by n.tail
   and flattenSpanInnerText(n) does not depend on n.tail; the flattened
   inner text of the word element leaves out, for every span with an
   excluded role, its text and that of its descendants, and keeps the
   text that follows the span; and the word, as the Word Builder made
   it, has that text for the exclusion set of the Word Builder. *)
C23_FlattenKeepsTail ==
    \A w \in AssembledWords :
        (SpanBuilt(w) /\ ~IsRubyContainer(WordEl(w))) =>
            /\ w.word = ContributedText(WordEl(w), SkipRoles)
            /\ \A skipRoles \in ExclusionSets :
                  /\ flattenSpanInnerText(parseSpan(WordEl(w)), skipRoles)
                        = ContributedText(WordEl(w), skipRoles)
                  /\ \A n \in SpanNodes(parseSpan(WordEl(w))) :
                        /\ flattenSpanText(n, skipRoles)
                              = flattenSpanInnerText(n, skipRoles) \o n.tail
                        /\ flattenSpanInnerText([n EXCEPT !.tail = <<"#">>],
                                                skipRoles)
                              = flattenSpanInnerText(n, skipRoles)

(* C23 witness: a word whose element holds text, a span with an excluded
   role and text after that span: the word has both texts and not the
   span's *)
C23_Witness ==
    \E w \in AssembledWords :
        /\ SpanBuilt(w)
        /\ Len(WordEl(w).childNodes) = 3
        /\ WordEl(w).childNodes[1] = TextNode(<<"a">>)
        /\ WordEl(w).childNodes[2] = Span(Role("x-roman"), <<TextNode(<<"r">>)>>)
        /\ WordEl(w).childNodes[3] = TextNode(<<"b">>)
        /\ w.word = <<"a", "b">>

-----------------------------------------------------------------------------
(* The span tree of an element *)

(* the element and the span elements below it that parseSpan visits *)
RECURSIVE VisitedSpans(_)
VisitedSpans(el) ==
    {el} \cup UNION {VisitedSpans(el.childNodes[k]) :
                        k \in {k \in 1..Len(el.childNodes) :
                                /\ el.childNodes[k].nodeType = "ELEMENT_NODE"
                                /\ el.childNodes[k].nodeName = "span"}}

(* the direct children of el that are span elements, as indices *)
SpanChildren(el) ==
    {k \in 1..Len(el.childNodes) :
        /\ el.childNodes[k].nodeType = "ELEMENT_NODE"
        /\ el.childNodes[k].nodeName = "span"}

(* the text nodes among the direct children of el with an index in from..to *)
DirectText(el, from, to) ==
    ConcatAll([k \in 1..Len(el.childNodes) |->
        IF k >= from /\ k <= to /\ el.childNodes[k].nodeType = "TEXT_NODE"
        THEN el.childNodes[k].data ELSE <<>>])

(* C24: for every element e that parseSpan visits in a word element, the
   node's text is the text before the first child span, its children are
   the child spans, the tail of each child is the text between it and the
   next child span (or the end), and the flattened inner text with no
   exclusion set is the text of e in document order without the text
   inside non-span child elements. *)
C24_ParseSpanKeepsText ==
    \A w \in AssembledWords :
        SpanBuilt(w) =>
            \A e \in VisitedSpans(WordEl(w)) :
                LET n == parseSpan(e)
                    S == SpanChildren(e)
                    last == Len(e.childNodes)
                IN /\ flattenSpanInnerText(n, {}) = ContributedText(e, {})
                   /\ n.text =
                        DirectText(e, 1, IF S = {} THEN last ELSE MinOf(S) - 1)
                   /\ Len(n.children) = Cardinality(S)
                   /\ \A k \in 1..Cardinality(S) :
                        n.children[k].tail =
                            DirectText(e, NthOf(S, k) + 1,
                                       IF k = Cardinality(S) THEN last
                                       ELSE NthOf(S, k + 1) - 1)

(* C24 witness: a word element with text, a child span, text after it and
   a non-span element with text of its own: the text after the span is
   the tail of the child and the text inside the other element is lost *)
C24_Witness ==
    \E w \in AssembledWords :
        /\ SpanBuilt(w)
        /\ Len(WordEl(w).childNodes) = 3
        /\ WordEl(w).childNodes[1].nodeType = "ELEMENT_NODE"
        /\ WordEl(w).childNodes[1].nodeName = "span"
        /\ Len(WordEl(w).childNodes[1].childNodes) = 3
        /\ WordEl(w).childNodes[2] = Element("em", <<>>, <<TextNode(<<"z">>)>>)
        /\ WordEl(w).childNodes[3] = TextNode(<<"b">>)
        /\ parseSpan(WordEl(w)).children[1].tail = <<"b">>
        /\ w.word = <<"c", "d", "b">>

-----------------------------------------------------------------------------
(* Documents whose word spans spell begin and end in several ways *)

BeginPool ==
    {Attr("", "begin", "0.0s"), Attr("", "begin", ""),
     Attr("ttm", "begin", "0.5s"), Attr("x", "begin", "1.0s"),
     Attr("", "xbegin", "1.5s")}

EndLists ==
    {<<>>, <<Attr("", "end", "2.0s")>>, <<Attr("x", "end", "3.0s")>>}

(* XML allows one attribute per name *)
DistinctNames(attrs) ==
    \A i, j \in 1..Len(attrs) :
        AttrName(attrs[i]) = AttrName(attrs[j]) => i = j

AttrLists ==
    {b \o e : b \in {a \in SeqsUpTo(BeginPool, MaxChildren) : DistinctNames(a)},
              e \in EndLists}

DocsAttr ==
    {Doc(<<>>, <<>>, <<P(Timed("0.0s", "3.0s"),
                         <<Span(a, <<TextNode(<<"a">>)>>)>>)>>) :
        a \in AttrLists}

InitAttr == InitWith(DocsAttr)

SpecAttr == InitAttr /\ [][Next]_vars

(* attr.name: the prefix, a colon and the local name, or the local name *)
QualifiedName(a) ==
    IF a.prefix = "" THEN <<a.localName>> ELSE <<a.prefix, ":", a.localName>>

(* name is target, or ends with a colon followed by target *)
NamesTarget(a, target) ==
    LET n == QualifiedName(a)
    IN \/ n = <<target>>
       \/ Len(n) = 3 /\ n[2] = ":" /\ n[3] = target

(* v is what the rule of the attribute resolver gives for target on el *)
Resolves(el, target, v) ==
    LET A == el.attributes
        exact == {i \in 1..Len(A) : QualifiedName(A[i]) = <<target>>}
        match == {i \in 1..Len(A) :
                    A[i].localName = target \/ NamesTarget(A[i], target)}
    IN \/ \E i \in exact : v = A[i].value
       \/ /\ exact = {}
          /\ \E i \in match : /\ v = A[i].value
                              /\ \A j \in match : i <= j
       \/ exact = {} /\ match = {} /\ v = Null

(* the word spans of the line elements of the returned lines, as paths *)
WordSpanPaths ==
    UNION {{Append(sourceOf[lyricLines[i].id], k) :
                k \in {k \in 1..Len(LineEl(lyricLines[i]).childNodes) :
                        /\ LineEl(lyricLines[i]).childNodes[k].nodeName = "span"
                        /\ IsWordElement(LineEl(lyricLines[i]).childNodes[k])
                        /\ ~IsRubyContainer(LineEl(lyricLines[i]).childNodes[k])}} :
            i \in 1..Len(lyricLines)}

(* C25: for every word span of a returned line and every target, getAttr
   gives the value of the attribute named exactly target when there is
   one, else the value of the first attribute whose local name is target
   or whose name ends with ":" and target, else null; and the word built
   from the span exists exactly when the values the rule gives for begin
   and end are both non-empty, and is timed by them. *)
C25_GetAttrRule ==
    Done =>
        \A path \in WordSpanPaths :
            LET el == NodeAt(path)
                ws == {w \in AssembledWords : sourceOf[w.id] = path}
            IN /\ \A t \in {"begin", "end", "xbegin", "role", "key"} :
                    Resolves(el, t, getAttr(el, t))
               /\ \A b, e \in {Null, "", "0.0s", "0.5s", "1.0s", "1.5s", "2.0s", "3.0s"} :
                    (Resolves(el, "begin", b) /\ Resolves(el, "end", e)) =>
                        IF Truthy(b) /\ Truthy(e)
                        THEN /\ Cardinality(ws) = 1
                             /\ \A w \in ws : /\ w.startTime = parseTimespan(b)
                                              /\ w.endTime = parseTimespan(e)
                        ELSE ws = {}

(* C25 witness: a word span with x:begin before ttm:begin before an
   exact begin, and only a prefixed end, was built into a word timed by
   the exact begin and the prefixed end *)
C25_Witness ==
    /\ Done
    /\ \E path \in WordSpanPaths :
          /\ NodeAt(path).attributes =
                <<Attr("x", "begin", "1.0s"), Attr("ttm", "begin", "0.5s"),
                  Attr("", "begin", "0.0s"), Attr("x", "end", "3.0s")>>
          /\ \E w \in AssembledWords :
                /\ sourceOf[w.id] = path
                /\ w.startTime = 0
                /\ w.endTime = 3000

-----------------------------------------------------------------------------
(* Conservation of lines *)

(* the x-bg spans the Line Builder visits from the element at path: the
   x-bg span children, and those the calls on them visit, as paths *)
RECURSIVE VisitedBg(_)
VisitedBg(path) ==
    UNION {{Append(path, k)} \cup VisitedBg(Append(path, k)) :
                k \in BgChildren(NodeAt(path))}

AllVisitedBg == UNION {VisitedBg(<<SelectedLines[k]>>) : k \in 1..Len(SelectedLines)}

(* the positions of the lines with the given isBG, in output order *)
LinesWith(isBG) == {i \in 1..Len(lyricLines) : lyricLines[i].isBG = isBG}

(* C26: the returned lyricLines hold one isBG=false line per selected p
   element, in the document order of the p elements, one isBG=true line
   per x-bg span visited, and no line twice. *)
C26_LinesConserved ==
    Done =>
        /\ Cardinality(LinesWith(FALSE)) = Len(SelectedLines)
        /\ \A k \in 1..Len(SelectedLines) :
              sourceOf[lyricLines[NthOf(LinesWith(FALSE), k)].id]
                  = <<SelectedLines[k]>>
        /\ Cardinality(LinesWith(TRUE)) = Cardinality(AllVisitedBg)
        /\ \A path \in AllVisitedBg :
              \E i \in LinesWith(TRUE) : sourceOf[lyricLines[i].id] = path
        /\ \A i, j \in 1..Len(lyricLines) :
              lyricLines[i].id = lyricLines[j].id => i = j

(* C26 witness: a returned call whose first p element has two x-bg
   children, one of them with an x-bg span of its own, and is followed
   by a p element with an x-bg child: every call with haveBg popped and
   pushed back *)
C26_Witness ==
    /\ Done
    /\ Len(SelectedLines) = 2
    /\ Cardinality(BgChildren(doc.body[1])) = 2
    /\ \E k \in BgChildren(doc.body[1]) :
          BgChildren(doc.body[1].childNodes[k]) # {}
    /\ BgChildren(doc.body[2]) # {}
    /\ Len(lyricLines) = 6

-----------------------------------------------------------------------------
(* Editing sessions *)

InitEditor == InitWith(DocsEditor)

SpecEditor == InitEditor /\ [][Next]_vars

(* C27: the colour system always has a folder, and no update of
   deleteFolder reads the id of a folder that does not exist (none
   throws on newFolders[0].id). *)
C27_AlwaysOneFolder == system.folders # <<>> /\ ~thrown

(* C28: every word of the lines the editor works on has ruby absent or
   non-empty. *)
C28_EditedRubyAbsentOrNonEmpty ==
    lyricLinesAtom # Null =>
        \A i \in 1..Len(lyricLinesAtom) :
            \A j \in 1..Len(lyricLinesAtom[i].words) :
                \/ lyricLinesAtom[i].words[j].ruby = <<>>
                \/ Len(lyricLinesAtom[i].words[j].ruby[1]) > 0

(* the texts of the segments, one after the other *)
SegmentText(segs) == ConcatAll([k \in 1..Len(segs) |-> segs[k].word])

Least(a, b) == IF a <= b THEN a ELSE b

Greatest(a, b) == IF a >= b THEN a ELSE b

(* C29: for the word of a mounted RubyEditor and every index,
   mergeRubyWithPrevious(index) with segments at index-1 and index leaves
   one segment less, the same concatenated text, the merged segment from
   the least start to the greatest end of the two, every other segment,
   every other field of the word and every other word as they were; for
   any other index the lines are unchanged. *)
C29_MergeKeepsText ==
    (lyricLinesAtom # Null /\ wordAtom # Null) =>
        \A index \in RubyIndices :
            LET after == mergedLyricLines(index)
                w == currentWord
                segs == RubyOf(w)
                w2 == after[wordAtom[1]].words[wordAtom[2]]
                segs2 == RubyOf(w2)
            IN IF index >= 1 /\ index < Len(segs)
               THEN /\ Len(segs2) = Len(segs) - 1
                    /\ SegmentText(segs2) = SegmentText(segs)
                    /\ segs2[index].startTime =
                          Least(segs[index].startTime, segs[index + 1].startTime)
                    /\ segs2[index].endTime =
                          Greatest(segs[index].endTime, segs[index + 1].endTime)
                    /\ \A k \in 1..Len(segs2) :
                          /\ k < index => segs2[k] = segs[k]
                          /\ k > index => segs2[k] = segs[k + 1]
                    /\ [w2 EXCEPT !.ruby = w.ruby] = w
                    /\ [after EXCEPT ![wordAtom[1]].words[wordAtom[2]] = w]
                          = lyricLinesAtom
               ELSE after = lyricLinesAtom

(* C29 witness: the two segments the parser made, y from 500 to 1000 and
   z from 1000 to 2000, are merged into yz from 500 to 2000 *)
C29_Witness ==
    /\ lyricLinesAtom # Null
    /\ wordAtom # Null
    /\ RubyOf(lyricLines[wordAtom[1]].words[wordAtom[2]]) =
          <<[word |-> <<"y">>, startTime |-> 500, endTime |-> 1000],
            [word |-> <<"z">>, startTime |-> 1000, endTime |-> 2000]>>
    /\ RubyOf(currentWord) =
          <<[word |-> <<"y", "z">>, startTime |-> 500, endTime |-> 2000]>>

(* the active folder is a folder, in the store and on screen *)
ActiveFolderPresent ==
    ~stray =>
        /\ system.activeFolderId \in FolderIds(system)
        /\ getActiveFolder # <<>>

(* a step that adds a folder activates it; a step that deletes the active
   folder activates the first folder left, and a step that deletes
   another folder keeps the active one *)
ActiveFolderStep ==
    ~stray' =>
        /\ Len(system'.folders) > Len(system.folders) =>
              system'.activeFolderId = system'.folders[Len(system'.folders)].id
        /\ Len(system'.folders) < Len(system.folders) =>
              IF system.activeFolderId \in FolderIds(system')
              THEN system'.activeFolderId = system.activeFolderId
              ELSE system'.activeFolderId = system'.folders[1].id

(* C30: as long as setActiveFolder and deleteFolder were called with ids
   of folders that existed, activeFolderId is the id of a folder in
   folders and getActiveFolder finds a folder; addFolder activates the
   folder it adds, deleting the active folder activates the first
   remaining folder, and deleting another keeps activeFolderId. *)
C30_ActiveFolderExists == [](ActiveFolderPresent) /\ [][ActiveFolderStep]_vars

(* C30 witness: the screen shows two folders with the second one active,
   and in the store that folder is deleted and the first is active *)
C30_Witness ==
    /\ ~stray
    /\ Len(rendered.folders) = 2
    /\ rendered.activeFolderId = rendered.folders[2].id
    /\ rendered.activeFolderId # "default"
    /\ FolderIds(system) = {"default"}
    /\ system.activeFolderId = "default"

====
